---- MODULE Spec2Model ----
(***************************************************************************)
(* Verification model of the emval bulk e-mail validator:                  *)
(*   - EmailValidationService (validators/core.py): the staged pipeline    *)
(*     and the per-item timeout wrapper;                                   *)
(*   - LocalDNSChecker / HTTPDNSChecker: the selective LRU cache and the   *)
(*     retrying lookup;                                                    *)
(*   - ProxyManager: the rate-limited proxy rotation;                      *)
(*   - SMTPValidator.validate_mailbox, the rate limiter of HTTPDNSChecker  *)
(*     and the pure methods of the leaf validators.                        *)
(* Each component has its own specification (SpecOrch, SpecDNS, SpecDNSSeq,*)
(* SpecProxy, SpecBurst, SpecSMTP, SpecSMTPSeq, SpecRate, SpecLeaf) over   *)
(* the shared variable list; a specification keeps the variables of the    *)
(* other components at their initial values.                               *)
(***************************************************************************)
EXTENDS Integers, Sequences, FiniteSets, TLC

VARIABLES
  \* ---- EmailValidationService.validate / _validate_internal ----
  cfg,        \* [deliverable_address, smtp_validation, smtp_validator, dns_checker,
              \*  syntax_validator]
  pyAlias,    \* TRUE iff concurrent.futures.TimeoutError is the builtin TimeoutError
  raw,        \* the argument of validate
  email,      \* the local `email` of validate after strip().lower()
  mpc,        \* position of the thread that called validate
  branch,     \* which arm of validate's try statement was taken
  ret,        \* the value validate returned
  wpc,        \* position of the executor's worker in _validate_internal
  wres,       \* the future: NoResult, a result tuple, or a raised exception
  calls,      \* collaborator calls made by the worker, in order
  mx_servers, \* the local `mx_servers` of _validate_internal
  shut,       \* executor.shutdown has been called
  \* ---- LocalDNSChecker / HTTPDNSChecker ----
  checker,    \* which class the checker object is: "local" or "http"
  callers,    \* the threads that call the checker
  cache,      \* self._cache: OrderedDict as a sequence of [dom, val], oldest first
  cache_lock, \* self._cache_lock: 0 when free, else the holder
  cache_hits, \* self._cache_hits
  cache_misses, \* self._cache_misses
  dpc,        \* per thread: position in check_domain / _check_domain_impl
  ddom,       \* per thread: the `domain` argument
  attempt,    \* per thread: loop variable of `for attempt in range(max_retries)`
  impl,       \* per thread: (success, error, cacheable) returned by _check_domain_impl
  dret,       \* per thread: what check_domain returned (or that it raised)
  queried,    \* per thread: the current call has made a network query
  prev,       \* per thread: domain, kind and value of the thread's previous call
  budget,     \* check_domain / clear_cache calls still to be started
  waited,     \* per thread: the wait_time of the latest time.sleep of the call's retry loop
  lru,        \* the cached domains, the least recently read or written first
  \* ---- ProxyManager ----
  now,        \* time.time()
  last_used,  \* proxy['last_used'] per proxy index
  current_index, \* self.current_index
  lock,       \* self.lock: 0 when free, else the holder
  ppc,        \* per thread: position in get_next_proxy / get_random_proxy
  pfn,        \* per thread: which of the two it called
  scanned,    \* per thread: iterations done of `for _ in range(len(self.proxies))`
  wake,       \* per thread: time at which time.sleep returns
  got,        \* per thread: index of the proxy returned (0: none yet)
  dispensed,  \* per proxy: the times at which it was handed out, in order
  pbudget,    \* get_next_proxy / get_random_proxy calls still to be started
  pcallers,   \* the threads that call the proxy manager
  proxies,    \* self.proxies, as the set of the indices of the proxies loaded
  scan_start, \* per thread: self.current_index when the thread entered the with block
  \* ---- SMTPValidator ----
  socket_lock,     \* SMTPValidator._socket_lock: 0 when free, else the holder
  socket_socket,   \* the global socket.socket: "socket" or "socksocket"
  default_proxy,   \* the default proxy of the socks module (NoProxy: none)
  spc,             \* per thread: position in validate_mailbox
  sproxy,          \* per thread: the local `proxy` (NoProxy: None)
  original_socket, \* per thread: the local `original_socket`
  via,             \* per thread: how smtp.connect was made: not yet, directly, through a proxy
  pending,         \* per thread: an exception is passing through the finally clause
  check_catchall,  \* per thread: the argument check_catchall
  scode,           \* per thread: the local `code` of the real address
  catchall_code,   \* per thread: the local `catchall_code` of the random address
  probes,          \* per thread: the RCPT TO commands sent, in order
  plan,            \* per thread: the tuple a return statement is about to return
  sout,            \* per thread: what validate_mailbox returned
  sbudget,         \* validate_mailbox calls still to be started
  scallers,        \* the threads that call the validator
  reply_codes,     \* the reply codes the mail servers of a run answer RCPT TO with
  \* ---- EmailSyntaxValidator, DisposableDomainChecker, _parse_dns_response ----
  leaf,            \* the method a run applies
  larg,            \* its argument
  lout,            \* what it returned (NoOut: not called yet)
  disposable_domains, \* DisposableDomainChecker.disposable_domains
  \* ---- HTTPDNSChecker._apply_rate_limit and the requests of _check_domain_impl ----
  clock,             \* time.time() as the DNS checker reads it
  last_request_time, \* self.last_request_time
  rate_limit_lock,   \* self._rate_limit_lock: 0 when free, else the holder
  hpc,               \* per thread: position in _check_domain_impl
  hattempt,          \* per thread: loop variable of `for attempt in range(max_retries)`
  hwake,             \* per thread: time at which time.sleep returns
  requests,          \* the times at which requests.get was called, in order
  hbudget,           \* _check_domain_impl calls still to be started
  hcallers           \* the threads that call _check_domain_impl

orchVars == <<cfg, pyAlias, raw, email, mpc, branch, ret, wpc, wres, calls,
              mx_servers, shut>>
dnsVars == <<checker, callers, cache, cache_lock, cache_hits, cache_misses, dpc,
             ddom, attempt, impl, dret, queried, prev, budget, waited, lru>>
proxyVars == <<now, last_used, current_index, lock, ppc, pfn, scanned, wake, got,
               dispensed, pbudget, pcallers, proxies, scan_start>>
smtpVars == <<socket_lock, socket_socket, default_proxy, spc, sproxy,
              original_socket, via, pending, check_catchall, scode, catchall_code,
              probes, plan, sout, sbudget, scallers, reply_codes>>
leafVars == <<leaf, larg, lout, disposable_domains>>
rateVars == <<clock, last_request_time, rate_limit_lock, hpc, hattempt, hwake,
              requests, hbudget, hcallers>>

vars == <<orchVars, dnsVars, proxyVars, smtpVars, leafVars, rateVars>>

(***************************************************************************)
(* EmailValidationService                                                  *)
(***************************************************************************)

\* Characters of the input alphabet: a blank, an upper-case and a lower-case
\* letter, the at sign, a second lower-case letter.
IsSpace(c) == c = " "

LowerChar(c) == IF c = "A" THEN "a" ELSE IF c = "B" THEN "b" ELSE c

\* str.lower()
Lower(s) == [i \in 1..Len(s) |-> LowerChar(s[i])]

RECURSIVE LStrip(_)
LStrip(s) == IF s # <<>> /\ IsSpace(Head(s)) THEN LStrip(Tail(s)) ELSE s

RECURSIVE RStrip(_)
RStrip(s) ==
  IF s # <<>> /\ IsSpace(s[Len(s)]) THEN RStrip(SubSeq(s, 1, Len(s) - 1)) ELSE s

\* str.strip()
Strip(s) == RStrip(LStrip(s))

\* email.strip().lower()  (core.py:96)
NormalizeBroken(s) == Strip(s)

Normalize(s) == Lower(Strip(s))

\* The arguments validate is called with.
RawEmails ==
  { <<>>, <<" ">>, <<"a", "@", "b">>, <<" ", "A", "@", "B", " ">>, <<"a", "b">>,
    <<"a", "@", "g", "m", "a", "i", "l", ".", "c", "o", "m">>,
    <<"a", "+", "b", "@", "g", "m", "a", "i", "l", ".", "c", "o", "m">>,
    <<"a", "+", "b", "@", "b", ".", "c", "o">> }

\* Position of the last '@' in s, 0 when there is none.
LastAt(s) ==
  Cardinality({i \in 1..Len(s) : \E j \in i..Len(s) : s[j] = "@"})

None == <<"None">>

\* EmailSyntaxValidator.extract_domain
extract_domain(e) ==
  IF LastAt(e) = 0 THEN None ELSE Lower(SubSeq(e, LastAt(e) + 1, Len(e)))

(***************************************************************************)
(* EmailSyntaxValidator                                                    *)
(***************************************************************************)

\* str.split(sep): the pieces of s between the occurrences of sep
RECURSIVE Split(_, _)
Split(s, sep) ==
  IF \A i \in 1..Len(s) : s[i] # sep THEN <<s>>
  ELSE LET i == CHOOSE k \in 1..Len(s) :
                  s[k] = sep /\ \A j \in 1..(k - 1) : s[j] # sep
       IN <<SubSeq(s, 1, i - 1)>> \o Split(SubSeq(s, i + 1, Len(s)), sep)

\* [a-zA-Z0-9] over the letters and digits of the input alphabet
IsAlnum(c) ==
  c \in {"a", "b", "c", "e", "g", "i", "l", "m", "o", "s", "t", "z", "A", "B", "1"}

\* ATEXT (syntax_validator.py:26), but for the backquote, which no input of
\* the model contains
ATEXT(c) ==
  IsAlnum(c) \/ c \in {"!", "#", "$", "%", "&", "'", "*", "+", "/", "=", "?",
                       "^", "_", "{", "|", "}", "~", "-"}

\* RESERVED_DOMAINS (syntax_validator.py:47-51)
RESERVED_DOMAINS ==
  { <<"t", "e", "s", "t">>,
    <<"e", "x", "a", "m", "p", "l", "e">>,
    <<"i", "n", "v", "a", "l", "i", "d">>,
    <<"l", "o", "c", "a", "l", "h", "o", "s", "t">>,
    <<"e", "x", "a", "m", "p", "l", "e", ".", "c", "o", "m">>,
    <<"e", "x", "a", "m", "p", "l", "e", ".", "n", "e", "t">>,
    <<"e", "x", "a", "m", "p", "l", "e", ".", "o", "r", "g">>,
    <<"t", "e", "s", "t", ".", "c", "o", "m">>,
    <<"i", "n", "v", "a", "l", "i", "d", ".", "c", "o", "m">> }

\* What validate and its helpers return: (is_valid, error_message)
Checked(ok, error) == [ok |-> ok, error |-> error]

\* _validate_dot_atom_local with allow_smtputf8 off: re.match of ^DOT_ATOM$
validate_dot_atom_local(local) ==
  IF local[1] = "." \/ local[Len(local)] = "."
    THEN Checked(FALSE, "Local part cannot start or end with dot")
  ELSE IF \E i \in 1..(Len(local) - 1) : local[i] = "." /\ local[i + 1] = "."
    THEN Checked(FALSE, "Local part cannot contain consecutive dots")
  ELSE IF ~(LET atoms == Split(local, ".") IN
            \A i \in 1..Len(atoms) :
              atoms[i] # <<>> /\ \A j \in 1..Len(atoms[i]) : ATEXT(atoms[i][j]))
    THEN Checked(FALSE, "Invalid characters in local part (Unicode not allowed)")
  ELSE Checked(TRUE, "")

\* _validate_local_part with allow_empty_local and allow_quoted_local off
validate_local_part(local) ==
  IF local = <<>> THEN Checked(FALSE, "Local part is empty")
  ELSE IF Len(local) > 64 THEN Checked(FALSE, "Local part exceeds 64 characters")
  ELSE IF local[1] = "\"" /\ local[Len(local)] = "\""
    THEN Checked(FALSE, "Quoted local parts not allowed")
  ELSE validate_dot_atom_local(local)

\* _validate_regular_domain with allow_smtputf8 off and no allowed special
\* domain; the error of a label is that of the first check the first bad
\* label fails
validate_regular_domain(domain) ==
  LET labels == Split(domain, ".")
      LabelError(label) ==
        IF label = <<>> THEN "Domain contains empty label (consecutive dots)"
        ELSE IF Len(label) > 63 THEN "Domain label exceeds 63 characters"
        ELSE IF label[1] = "-" \/ label[Len(label)] = "-"
          THEN "Domain label cannot start or end with hyphen"
        ELSE IF ~(\A j \in 1..Len(label) : IsAlnum(label[j]) \/ label[j] = "-")
          THEN "Invalid characters in domain label (Unicode not allowed)"
        ELSE ""
      bad == {i \in 1..Len(labels) : LabelError(labels[i]) # ""}
  IN
  IF \A i \in 1..Len(domain) : domain[i] # "."
    THEN Checked(FALSE, "Domain must contain at least one dot (TLD required)")
  ELSE IF Lower(domain) \in RESERVED_DOMAINS
    THEN Checked(FALSE, "Reserved domain not allowed")
  ELSE IF domain[1] = "." \/ domain[Len(domain)] = "."
    THEN Checked(FALSE, "Domain cannot start or end with dot")
  ELSE IF domain[1] = "-" \/ domain[Len(domain)] = "-"
    THEN Checked(FALSE, "Domain cannot start or end with hyphen")
  ELSE IF bad # {}
    THEN Checked(FALSE, LabelError(labels[CHOOSE i \in bad : \A k \in bad : i <= k]))
  ELSE IF Len(labels[Len(labels)]) < 2
    THEN Checked(FALSE, "TLD must be at least 2 characters")
  ELSE Checked(TRUE, "")

\* _validate_domain_part with allow_domain_literal off
validate_domain_part(domain) ==
  IF domain = <<>> THEN Checked(FALSE, "Domain is empty")
  ELSE IF Len(domain) > 253 THEN Checked(FALSE, "Domain exceeds 253 characters")
  ELSE IF domain[1] = "[" /\ domain[Len(domain)] = "]"
    THEN Checked(FALSE, "Domain literals not allowed")
  ELSE validate_regular_domain(domain)

\* EmailSyntaxValidator.validate; the error of a part is prefixed with the
\* part's name
validate(e) ==
  IF e = <<>> \/ e = None
    THEN Checked(FALSE, <<"Email must be a non-empty string">>)
  ELSE
  LET s == Strip(e)
      at_count == Cardinality({i \in 1..Len(s) : s[i] = "@"})
      local == SubSeq(s, 1, LastAt(s) - 1)
      domain == SubSeq(s, LastAt(s) + 1, Len(s))
  IN
  IF Len(s) > 254 THEN Checked(FALSE, <<"Email exceeds 254 characters">>)
  ELSE IF at_count = 0 THEN Checked(FALSE, <<"Email must contain @ symbol">>)
  ELSE IF at_count > 1
    THEN Checked(FALSE, <<"Email must contain exactly one @ symbol">>)
  ELSE IF ~validate_local_part(local).ok
    THEN Checked(FALSE, <<"Invalid local part: ", validate_local_part(local).error>>)
  ELSE IF ~validate_domain_part(domain).ok
    THEN Checked(FALSE, <<"Invalid domain: ", validate_domain_part(domain).error>>)
  ELSE Checked(TRUE, <<>>)

(***************************************************************************)
(* EmailValidationService: the pipeline                                    *)
(***************************************************************************)

NoResult == [kind |-> "none"]

Result(e, ok, reason, category) ==
  [kind |-> "result", email |-> e, is_valid |-> ok, reason |-> reason,
   category |-> category]

Raised(exc) == [kind |-> "raised", exc |-> exc]

\* The exceptions a collaborator may raise: a TimeoutError (socket.timeout is
\* one) and any other Exception.
Exceptions == {"TimeoutError", "Exception"}

\* A collaborator call: the method, its argument and what it handed back
\* ("raise" when it raised).
Call(fn, arg, out) == [fn |-> fn, arg |-> arg, out |-> out]

\* What a check handed back, as the stage reads it: the address passed the
\* check or failed it (for get_mx_servers: the list is non-empty or empty).
Verdict(passed) == IF passed THEN "pass" ELSE "fail"

\* need_mx_servers (core.py:167)
need_mx_servers ==
  cfg.deliverable_address \/ (cfg.smtp_validation /\ cfg.smtp_validator)

\* The guard of the SMTP step (core.py:186)
smtp_stepBroken(mx) ==
  cfg.deliverable_address /\ cfg.smtp_validation /\ cfg.smtp_validator /\ mx # <<>>

smtp_step(mx) == cfg.smtp_validation /\ cfg.smtp_validator /\ mx # <<>>

\* The statuses validate_mailbox may hand back; "other" stands for any value
\* outside the documented four.
SmtpStatuses == {"catch-all", "valid", "invalid", "unknown", "other"}

\* The mapping of the SMTP status to the result tuple (core.py:193-212).
SmtpResultBroken(e, status, message) ==
  IF status = "catch-all" THEN Result(e, TRUE, "Catch-all domain (risky)", "risk")
  ELSE IF status = "valid" THEN Result(e, TRUE, "Valid mailbox", "valid")
  ELSE IF status = "invalid" THEN Result(e, FALSE, message, "invalid")
  ELSE IF status = "unknown" THEN Result(e, FALSE, message, "invalid")
  ELSE Result(e, TRUE, "Valid (DNS only)", "valid")

SmtpResult(e, status, message) ==
  IF status = "catch-all" THEN Result(e, TRUE, "Catch-all domain (risky)", "risk")
  ELSE IF status = "valid" THEN Result(e, TRUE, "Valid mailbox", "valid")
  ELSE IF status = "invalid" THEN Result(e, FALSE, message, "invalid")
  ELSE IF status = "unknown" THEN Result(e, TRUE, message, "unknown")
  ELSE Result(e, TRUE, "Valid (DNS only)", "valid")

\* The worker leaves _validate_internal with value r (a result or an exception).
Finish(r) ==
  /\ wres' = r
  /\ wpc' = "finished"

\* The stage reached after extract_domain returned a domain (core.py:166-186).
AfterDomain == IF need_mx_servers THEN "dns" ELSE "classify"

\* A stage that fails definitively returns; the others go on (core.py:147,154).
GateBroken(failed) == FALSE

Gate(failed) == failed

\* The worker thread takes the work item off the executor's queue and enters
\* _validate_internal; an empty email returns at once (core.py:141-143).
WStart ==
  /\ wpc = "queued"
  /\ IF email = <<>>
       THEN Finish(Result(email, FALSE, "Empty email", "invalid"))
       ELSE wpc' = "syntax" /\ wres' = wres
  /\ UNCHANGED <<cfg, pyAlias, raw, email, mpc, branch, ret, calls, mx_servers, shut, dnsVars, proxyVars, smtpVars, leafVars, rateVars>>

\* The objects found in self.syntax_validator: an EmailSyntaxValidator with
\* the default options, or one whose validate is a Mock
\* (src/test_smtp_fixes.py:48).
SyntaxValidators == {"EmailSyntaxValidator", "Mock"}

\* What self.syntax_validator.validate(e) may answer
\* The emails the pipeline may hand to the syntax validator, and what
\* EmailSyntaxValidator.validate returns for each
PipelineEmails == UNION {{r, Strip(r), Lower(Strip(r))} : r \in RawEmails}

syntax_results == [e \in PipelineEmails |-> validate(e)]

SyntaxVerdicts(e) ==
  IF cfg.syntax_validator = "Mock" THEN BOOLEAN ELSE {syntax_results[e].ok}

\* Step 1: self.syntax_validator.validate(email) (core.py:146-149)
WSyntax ==
  /\ wpc = "syntax"
  /\ \/ \E ok \in SyntaxVerdicts(email) :
          /\ calls' = Append(calls, Call("syntax", email, Verdict(ok)))
          /\ IF Gate(~ok)
               THEN Finish(Result(email, FALSE, "syntax_error", "invalid"))
               ELSE wpc' = "disposable" /\ wres' = wres
     \/ \E x \in Exceptions :
          /\ cfg.syntax_validator = "Mock"
          /\ calls' = Append(calls, Call("syntax", email, "raise"))
          /\ Finish(Raised(x))
  /\ UNCHANGED <<cfg, pyAlias, raw, email, mpc, branch, ret, mx_servers, shut, dnsVars, proxyVars, smtpVars, leafVars, rateVars>>

\* Step 2: self.disposable_checker.is_disposable(email) (core.py:154-156)
WDisposable ==
  /\ wpc = "disposable"
  /\ \/ \E disp \in BOOLEAN :
          /\ calls' = Append(calls, Call("disposable", email, Verdict(~disp)))
          /\ IF Gate(disp)
               THEN Finish(Result(email, FALSE, "Disposable email domain", "invalid"))
               ELSE wpc' = "extract" /\ wres' = wres
     \/ \E x \in Exceptions :
          /\ calls' = Append(calls, Call("disposable", email, "raise"))
          /\ Finish(Raised(x))
  /\ UNCHANGED <<cfg, pyAlias, raw, email, mpc, branch, ret, mx_servers, shut, dnsVars, proxyVars, smtpVars, leafVars, rateVars>>

\* Step 3, first half: extract_domain and need_mx_servers (core.py:161-169,183)
WExtract ==
  /\ wpc = "extract"
  /\ IF extract_domain(email) = None
       THEN /\ Finish(Result(email, FALSE, "Invalid email format", "invalid"))
            /\ UNCHANGED mx_servers
       ELSE /\ wpc' = AfterDomain
            /\ wres' = wres
            /\ mx_servers' = <<>>
  /\ UNCHANGED <<cfg, pyAlias, raw, email, mpc, branch, ret, calls, shut, dnsVars, proxyVars, smtpVars, leafVars, rateVars>>

\* Step 3: self.dns_checker.check_domain(domain) (core.py:170-178)
WDns ==
  /\ wpc = "dns"
  /\ \/ \E has_mx \in BOOLEAN :
          /\ calls' = Append(calls, Call("dns", extract_domain(email), Verdict(has_mx)))
          /\ IF has_mx
               THEN wpc' = "get_mx" /\ wres' = wres
               ELSE IF Gate(cfg.deliverable_address)
                 THEN Finish(Result(email, FALSE, "dns_error", "invalid"))
                 ELSE wpc' = "classify" /\ wres' = wres
     \/ \E x \in Exceptions :
          /\ calls' = Append(calls, Call("dns", extract_domain(email), "raise"))
          /\ Finish(Raised(x))
  /\ UNCHANGED <<cfg, pyAlias, raw, email, mpc, branch, ret, mx_servers, shut, dnsVars, proxyVars, smtpVars, leafVars, rateVars>>

\* The objects passed as dns_checker: an instance of LocalDNSChecker, one of
\* HTTPDNSChecker, or the Mock of the tests (src/test_smtp_fixes.py:31-33).
DnsCheckers == {"LocalDNSChecker", "HTTPDNSChecker", "Mock"}

\* The dns_checker object has a method get_mx_servers: neither class of the
\* repository defines one (local_dns_checker.py:17-290,
\* http_dns_checker.py:19-344); the Mock is given one.
has_get_mx_servers == cfg.dns_checker = "Mock"

\* self.dns_checker.get_mx_servers(domain) (core.py:180): the call, or the
\* AttributeError of the attribute lookup when the object has no such method
WGetMx ==
  /\ wpc = "get_mx"
  /\ \/ \E mx \in {<<>>, <<"mx1">>, <<"mx1", "mx2">>} :
          /\ has_get_mx_servers
          /\ calls' = Append(calls, Call("get_mx_servers", extract_domain(email), Verdict(mx # <<>>)))
          /\ mx_servers' = mx
          /\ wpc' = "classify"
          /\ wres' = wres
     \/ \E x \in Exceptions :
          /\ has_get_mx_servers
          /\ calls' = Append(calls,
                         Call("get_mx_servers", extract_domain(email), "raise"))
          /\ Finish(Raised(x))
          /\ UNCHANGED mx_servers
     \/ /\ ~has_get_mx_servers
        /\ calls' = Append(calls,
                       Call("get_mx_servers", extract_domain(email), "raise"))
        /\ Finish(Raised("AttributeError"))
        /\ UNCHANGED mx_servers
  /\ UNCHANGED <<cfg, pyAlias, raw, email, mpc, branch, ret, shut, dnsVars, proxyVars, smtpVars, leafVars, rateVars>>

\* Steps 4 and 5: validate_mailbox on the first MX server, and the final
\* classification (core.py:186-212)
WClassify ==
  /\ wpc = "classify"
  /\ IF smtp_step(mx_servers)
       THEN LET arg == <<email, mx_servers[1], TRUE>> IN
            \/ \E st \in SmtpStatuses :
                 /\ calls' = Append(calls, Call("smtp", arg, st))
                 /\ Finish(SmtpResult(email, st, "smtp_message"))
            \/ \E x \in Exceptions :
                 /\ calls' = Append(calls, Call("smtp", arg, "raise"))
                 /\ Finish(Raised(x))
       ELSE /\ calls' = calls
            /\ Finish(Result(email, TRUE, "Valid (DNS only)", "valid"))
  /\ UNCHANGED <<cfg, pyAlias, raw, email, mpc, branch, ret, mx_servers, shut, dnsVars, proxyVars, smtpVars, leafVars, rateVars>>

\* The worker thread of the executor ends once shutdown was called and it has
\* no work item left.
WExit ==
  /\ wpc \in {"finished", "cancelled"}
  /\ shut
  /\ wpc' = "exited"
  /\ UNCHANGED <<cfg, pyAlias, raw, email, mpc, branch, ret, wres, calls,
                 mx_servers, shut, dnsVars, proxyVars, smtpVars, leafVars, rateVars>>

\* validate: normalisation, executor creation and submit (core.py:96-101)
MSubmit ==
  /\ mpc = "idle"
  /\ email' = Normalize(raw)
  /\ wpc' = "queued"
  /\ mpc' = "waiting"
  /\ UNCHANGED <<cfg, pyAlias, raw, branch, ret, wres, calls, mx_servers, shut, dnsVars, proxyVars, smtpVars, leafVars, rateVars>>

\* The except clause that handles an exception future.result re-raises
\* (core.py:109,123): "timeout", "error", or "none" when it escapes validate.
HandlerBroken(exc) ==
  IF exc = "TimeoutError" /\ pyAlias THEN "timeout" ELSE "none"

Handler(exc) ==
  IF exc = "TimeoutError" /\ pyAlias THEN "timeout" ELSE "error"

\* future.result(timeout=self.global_timeout) returns the worker's tuple
\* (core.py:105)
MGotResult ==
  /\ mpc = "waiting"
  /\ wres.kind = "result"
  /\ branch' = "ok"
  /\ mpc' = "shutdown"
  /\ UNCHANGED <<cfg, pyAlias, raw, email, ret, wpc, wres, calls, mx_servers, shut, dnsVars, proxyVars, smtpVars, leafVars, rateVars>>

\* future.result re-raises the exception of the worker (core.py:105,109,123)
MGotException ==
  /\ mpc = "waiting"
  /\ wres.kind = "raised"
  /\ branch' = Handler(wres.exc)
  /\ mpc' = IF Handler(wres.exc) = "none" THEN "raised" ELSE "shutdown"
  /\ UNCHANGED <<cfg, pyAlias, raw, email, ret, wpc, wres, calls, mx_servers, shut, dnsVars, proxyVars, smtpVars, leafVars, rateVars>>

\* future.result times out: the pipeline has not finished within
\* global_timeout. future.cancel() takes a work item that is still queued off
\* the executor and does nothing to a running one (core.py:109-112).
MTimeout ==
  /\ mpc = "waiting"
  /\ wres.kind = "none"
  /\ branch' = "timeout"
  /\ mpc' = "shutdown"
  /\ wpc' = IF wpc = "queued" THEN "cancelled" ELSE wpc
  /\ UNCHANGED <<cfg, pyAlias, raw, email, ret, wres, calls, mx_servers, shut, dnsVars, proxyVars, smtpVars, leafVars, rateVars>>

\* The `wait` argument of executor.shutdown in each arm (core.py:107,117,126)
ShutdownWaitBroken(b) == TRUE

ShutdownWait(b) == b = "ok"

\* executor.shutdown(wait=...): with wait=True the caller joins the worker
\* thread.
MShutdown ==
  /\ mpc = "shutdown"
  /\ shut' = TRUE
  /\ mpc' = IF ShutdownWait(branch) /\ wpc # "exited" THEN "joining" ELSE "return"
  /\ UNCHANGED <<cfg, pyAlias, raw, email, branch, ret, wpc, wres, calls, mx_servers, dnsVars, proxyVars, smtpVars, leafVars, rateVars>>

\* The join inside shutdown(wait=True) ends when the worker thread has ended.
MJoin ==
  /\ mpc = "joining"
  /\ wpc = "exited"
  /\ mpc' = "return"
  /\ UNCHANGED <<cfg, pyAlias, raw, email, branch, ret, wpc, wres, calls,
                 mx_servers, shut, dnsVars, proxyVars, smtpVars, leafVars, rateVars>>

\* The return that prefers the worker's tuple whenever there is one
ReturnedBroken(b) ==
  IF b = "ok" \/ wres.kind = "result" THEN wres
  ELSE IF b = "timeout"
    THEN Result(email, TRUE, "Validation timeout exceeded", "unknown")
    ELSE Result(email, FALSE, "Validation error", "unknown")

\* The tuple each arm of validate returns (core.py:108,122,127)
Returned(b) ==
  IF b = "ok" THEN wres
  ELSE IF b = "timeout"
    THEN Result(email, TRUE, "Validation timeout exceeded", "unknown")
    ELSE Result(email, FALSE, "Validation error", "unknown")

MReturn ==
  /\ mpc = "return"
  /\ ret' = Returned(branch)
  /\ mpc' = "returned"
  /\ UNCHANGED <<cfg, pyAlias, raw, email, branch, wpc, wres, calls, mx_servers, shut, dnsVars, proxyVars, smtpVars, leafVars, rateVars>>

OrchInit ==
  /\ cfg \in [deliverable_address : BOOLEAN, smtp_validation : BOOLEAN,
              smtp_validator : BOOLEAN, dns_checker : DnsCheckers,
              syntax_validator : SyntaxValidators]
  /\ pyAlias \in BOOLEAN
  /\ raw \in RawEmails
  /\ email = raw
  /\ mpc = "idle"
  /\ branch = "none"
  /\ ret = NoResult
  /\ wpc = "unborn"
  /\ wres = NoResult
  /\ calls = <<>>
  /\ mx_servers = <<>>
  /\ shut = FALSE

OrchNext ==
  \/ MSubmit \/ WStart \/ WSyntax \/ WDisposable \/ WExtract \/ WDns \/ WGetMx
  \/ WClassify \/ WExit \/ MGotResult \/ MGotException \/ MTimeout \/ MShutdown
  \/ MJoin \/ MReturn

(***************************************************************************)
(* LocalDNSChecker / HTTPDNSChecker                                        *)
(***************************************************************************)

NThreads == 2
Threads == 1..NThreads

NDomains == 3
\* A domain name is <<case, i>>: the i-th name, written in lower case or in
\* capitals. check_domain is called with lower-case names and with one name
\* in capitals.
Domains == {"lower"} \X (1..NDomains)
DomainArgs == Domains \cup {<<"upper", 1>>}
NoDomain == <<"lower", 0>>

\* domain.lower() (local_dns_checker.py:96, http_dns_checker.py:77)
LowerDomain(d) == <<"lower", d[2]>>

\* self.cache_size
cache_size == 2

\* self.max_retries
max_retries == 3

\* How many check_domain and clear_cache calls a run starts.
MaxCalls == 3

ImplResult(success, error, cacheable) ==
  [success |-> success, error |-> error, cacheable |-> cacheable]

NoImpl == [success |-> FALSE, error |-> "-", cacheable |-> FALSE]

Return(success, error, cacheable) ==
  [act |-> "return", val |-> ImplResult(success, error, cacheable)]

Goto(act) == [act |-> act, val |-> NoImpl]

\* self.retry_delay, the unit of the waits
retry_delay == 1

\* self.retry_delay * (2 ** attempt)
Backoff(a) == retry_delay * 2^a

\* `if attempt < self.max_retries - 1: time.sleep(wait); continue`, else the
\* temporary failure (local_dns_checker.py:206-212 and alike).
RetryOr(a, wait, error) ==
  IF a < max_retries - 1
    THEN [act |-> "retry", val |-> NoImpl, wait |-> wait]
    ELSE Return(FALSE, error, FALSE)

\* What self.resolver.resolve may do: hand back records, or raise.
LocalOutcomes ==
  {"answer", "null_mx", "NoAnswer", "NXDOMAIN", "Timeout", "LifetimeTimeout",
   "NoNameservers", "NoResolverConfiguration", "DNSException", "Exception"}

\* The last except clause of _check_domain_impl (local_dns_checker.py:260-263)
LocalCatchAllBroken(out, a) == Goto("raise")

LocalCatchAll(out, a) == Return(FALSE, "Unexpected error (temporary)", FALSE)

\* One resolver query of _check_domain_impl and the except clause that
\* handles its outcome (local_dns_checker.py:139-263). stage is the record
\* type queried, a the loop variable `attempt`.
local_query(stage, out, a) ==
  CASE out = "answer" -> Return(TRUE, "", TRUE)
    [] out = "null_mx" ->
         IF stage = "mx"
           THEN Return(FALSE, "Domain rejects email (null MX records)", TRUE)
           ELSE Return(TRUE, "", TRUE)
    [] out = "NoAnswer" ->
         IF stage = "aaaa"
           THEN Return(FALSE, "No MX, A, or AAAA records found", TRUE)
           ELSE Goto("next")
    [] out = "NXDOMAIN" -> Return(FALSE, "Domain not found (no DNS records)", TRUE)
    [] out \in {"Timeout", "LifetimeTimeout"} ->
         RetryOr(a, Backoff(a), "DNS check timeout (temporary)")
    [] out = "NoNameservers" -> RetryOr(a, Backoff(a), "All DNS servers failed (temporary)")
    [] out = "NoResolverConfiguration" ->
         RetryOr(a, Backoff(a), "DNS resolver not configured (temporary)")
    [] out = "DNSException" -> RetryOr(a, Backoff(a), "DNS error (temporary)")
    [] OTHER -> LocalCatchAll(out, a)

\* What _parse_dns_response hands back for a 200 response: a (bool, str) pair
\* or None (http_dns_checker.py:262-308).
ParseResults ==
  { <<TRUE, "">>, <<FALSE, "MX records exist but are invalid">>,
    <<FALSE, "No MX or A records found">> }

\* What requests.get may do: a status code, or raise.
HttpOutcomes ==
  {"200", "404", "429", "500", "400", "403", "Timeout", "ProxyError",
   "ConnectionError", "RequestException", "ValueError", "Exception"}

\* One API request of _check_domain_impl and the branch or except clause that
\* handles it (http_dns_checker.py:123-239). parsed is the value of
\* _parse_dns_response when the status is 200.
http_request(out, parsed, a) ==
  CASE out = "200" ->
         IF parsed # None
           THEN Return(parsed[1], parsed[2], TRUE)
           ELSE RetryOr(a, retry_delay, "DNS lookup failed (parse error)")
    [] out = "404" -> Return(FALSE, "Domain not found (no DNS records)", TRUE)
    [] out = "429" -> RetryOr(a, Backoff(a), "API rate limit exceeded (temporary)")
    [] out = "500" -> RetryOr(a, retry_delay, "API server error (temporary)")
    [] out = "400" -> Return(FALSE, "Invalid domain format", TRUE)
    [] out = "403" -> RetryOr(a, retry_delay, "API error (temporary)")
    [] out = "Timeout" -> RetryOr(a, retry_delay, "DNS check timeout (temporary)")
    [] out = "ProxyError" -> Return(FALSE, "Proxy error (temporary)", FALSE)
    [] out = "ConnectionError" -> RetryOr(a, retry_delay, "Connection error (temporary)")
    [] out = "RequestException" -> Return(FALSE, "Request error (temporary)", FALSE)
    [] out = "ValueError" -> RetryOr(a, retry_delay, "Invalid API response (temporary)")
    [] OTHER -> Return(FALSE, "Unexpected error (temporary)", FALSE)

\* OrderedDict: `key in d`, d[key], d.move_to_end(key), d[key] = v,
\* d.popitem(last=False)
InCache(c, d) == \E i \in 1..Len(c) : c[i].dom = d

CacheGet(c, d) == (CHOOSE i \in 1..Len(c) : c[i].dom = d)

SelectSeqNot(c, d) == SelectSeq(c, LAMBDA e : e.dom # d)

move_to_end(c, d) == Append(SelectSeqNot(c, d), c[CacheGet(c, d)])

\* d[key] = v keeps the position of a key that is present and appends a new one.
setitem(c, d, v) ==
  IF InCache(c, d)
    THEN [i \in 1..Len(c) |-> IF c[i].dom = d THEN [dom |-> d, val |-> v] ELSE c[i]]
    ELSE Append(c, [dom |-> d, val |-> v])

popitem_first(c) == Tail(c)

\* The order of last use after domain d was read or written
Touch(l, d) == Append(SelectSeq(l, LAMBDA x : x # d), d)

\* `if cacheable:` (local_dns_checker.py:112, http_dns_checker.py:93)
StoresBroken(r) == TRUE

Stores(r) == r.cacheable

\* `if len(self._cache) > self.cache_size:` (local_dns_checker.py:116)
EvictsBroken(c) == Len(c) > cache_size + 1

Evicts(c) == Len(c) > cache_size

Pair(r) == <<r.success, r.error>>

NoReturn == <<"-">>
RaisedOut == <<"raised">>

NoPrev == [dom |-> NoDomain, kind |-> "none", val |-> NoReturn]

\* How the call that thread t has finished ended.
CallKind(t) ==
  IF dret[t] = RaisedOut THEN "raised"
  ELSE IF impl[t] = NoImpl THEN "hit"
  ELSE IF impl[t].cacheable THEN "definitive" ELSE "transient"

\* The thread's latest finished check_domain call: the one it has just
\* returned from, if any, else the one recorded before.
LastCall(t) ==
  IF dpc[t] = "done"
    THEN [dom |-> ddom[t], kind |-> CallKind(t), val |-> dret[t]]
    ELSE prev[t]

dnsRest == <<checker, callers>>

\* A thread calls check_domain(d) (local_dns_checker.py:85-96)
DCall(t, d) ==
  /\ t \in callers
  /\ dpc[t] \in {"idle", "done"}
  /\ budget > 0
  /\ budget' = budget - 1
  /\ prev' = [prev EXCEPT ![t] = LastCall(t)]
  /\ ddom' = [ddom EXCEPT ![t] = LowerDomain(d)]
  /\ dpc' = [dpc EXCEPT ![t] = "lookup"]
  /\ attempt' = [attempt EXCEPT ![t] = 0]
  /\ impl' = [impl EXCEPT ![t] = NoImpl]
  /\ dret' = [dret EXCEPT ![t] = NoReturn]
  /\ queried' = [queried EXCEPT ![t] = FALSE]
  /\ waited' = [waited EXCEPT ![t] = 0]
  /\ UNCHANGED <<cache, cache_lock, cache_hits, cache_misses, lru, dnsRest, orchVars, proxyVars, smtpVars, leafVars, rateVars>>

\* Where an attempt of the retry loop starts: the MX query of the resolver,
\* or the API request. max_retries is at least 1, so the loop body runs.
ImplEntry == IF checker = "local" THEN "mx" ELSE "request"

\* The cache lookup with the miss counted before the cache is looked at.
DLookupBroken(t) ==
  /\ dpc[t] = "lookup"
  /\ cache_lock = 0
  /\ cache_lock' = 0
  /\ cache_misses' = cache_misses + 1
  /\ IF InCache(cache, ddom[t])
       THEN /\ cache_hits' = cache_hits + 1
            /\ cache' = move_to_end(cache, ddom[t])
            /\ lru' = Touch(lru, ddom[t])
            /\ dret' = [dret EXCEPT ![t] = cache[CacheGet(cache, ddom[t])].val]
            /\ dpc' = [dpc EXCEPT ![t] = "done"]
       ELSE /\ dpc' = [dpc EXCEPT ![t] = ImplEntry]
            /\ UNCHANGED <<cache, cache_hits, dret, lru>>
  /\ UNCHANGED <<ddom, attempt, impl, queried, prev, budget, waited, dnsRest, orchVars,
                 proxyVars, smtpVars, leafVars, rateVars>>

\* The cache lookup: the whole with block, entered when the lock is free and
\* left with the lock free again (local_dns_checker.py:99-106)
DLookup(t) ==
  /\ dpc[t] = "lookup"
  /\ cache_lock = 0
  /\ cache_lock' = 0
  /\ IF InCache(cache, ddom[t])
       THEN /\ cache_hits' = cache_hits + 1
            /\ cache' = move_to_end(cache, ddom[t])
            /\ lru' = Touch(lru, ddom[t])
            /\ dret' = [dret EXCEPT ![t] = cache[CacheGet(cache, ddom[t])].val]
            /\ dpc' = [dpc EXCEPT ![t] = "done"]
            /\ UNCHANGED cache_misses
       ELSE /\ cache_misses' = cache_misses + 1
            /\ dpc' = [dpc EXCEPT ![t] = ImplEntry]
            /\ UNCHANGED <<cache, cache_hits, dret, lru>>
  /\ UNCHANGED <<ddom, attempt, impl, queried, prev, budget, waited, dnsRest, orchVars, proxyVars, smtpVars, leafVars, rateVars>>

\* _check_domain_impl has returned r: check_domain stores it when it is
\* cacheable, and returns it as it is otherwise (local_dns_checker.py:109-122).
ImplDone(t, r) ==
  /\ impl' = [impl EXCEPT ![t] = r]
  /\ IF Stores(r)
       THEN dpc' = [dpc EXCEPT ![t] = "insert"] /\ dret' = dret
       ELSE dpc' = [dpc EXCEPT ![t] = "done"] /\ dret' = [dret EXCEPT ![t] = Pair(r)]

\* The effect on thread t of one query or request whose handling is h; the
\* locals attempt and wait_time end with the call.
Handled(t, h, nextStage) ==
  CASE h.act = "return" ->
         /\ ImplDone(t, h.val)
         /\ waited' = [waited EXCEPT ![t] = 0]
         /\ attempt' = [attempt EXCEPT ![t] = 0]
    [] h.act = "next" ->
         /\ dpc' = [dpc EXCEPT ![t] = nextStage]
         /\ UNCHANGED <<attempt, impl, dret, waited>>
    [] h.act = "retry" ->
         /\ waited' = [waited EXCEPT ![t] = h.wait]
         /\ attempt' = [attempt EXCEPT ![t] = attempt[t] + 1]
         /\ dpc' = [dpc EXCEPT ![t] = ImplEntry]
         /\ UNCHANGED <<impl, dret>>
    [] OTHER ->
         /\ dpc' = [dpc EXCEPT ![t] = "done"]
         /\ dret' = [dret EXCEPT ![t] = RaisedOut]
         /\ waited' = [waited EXCEPT ![t] = 0]
         /\ attempt' = [attempt EXCEPT ![t] = 0]
         /\ UNCHANGED impl

\* The fallback that skips the A records
NextStageBroken(stage) == "aaaa"

\* The query that follows a NoAnswer: A after MX, AAAA after A
\* (local_dns_checker.py:156-159, 166-175, 177-180)
NextStage(stage) == IF stage = "mx" THEN "a" ELSE "aaaa"

\* LocalDNSChecker._check_domain_impl: one self.resolver.resolve call
DQuery(t) ==
  /\ dpc[t] \in {"mx", "a", "aaaa"}
  /\ queried' = [queried EXCEPT ![t] = TRUE]
  /\ \E out \in LocalOutcomes :
       /\ out = "null_mx" => dpc[t] = "mx"
       /\ Handled(t, local_query(dpc[t], out, attempt[t]), NextStage(dpc[t]))
  /\ UNCHANGED <<cache, cache_lock, cache_hits, cache_misses, ddom, prev, budget,
                 lru, dnsRest, orchVars, proxyVars, smtpVars, leafVars, rateVars>>

\* HTTPDNSChecker._check_domain_impl: one requests.get call
DRequest(t) ==
  /\ dpc[t] = "request"
  /\ queried' = [queried EXCEPT ![t] = TRUE]
  /\ \E out \in HttpOutcomes, parsed \in ParseResults \cup {None} :
       /\ out # "200" => parsed = None
       /\ Handled(t, http_request(out, parsed, attempt[t]), "request")
  /\ UNCHANGED <<cache, cache_lock, cache_hits, cache_misses, ddom, prev, budget,
                 lru, dnsRest, orchVars, proxyVars, smtpVars, leafVars, rateVars>>

\* `with self._cache_lock:` is entered and self._cache[domain] = (success,
\* error) is done (local_dns_checker.py:113-114)
DInsert(t) ==
  /\ dpc[t] = "insert"
  /\ cache_lock = 0
  /\ cache_lock' = t
  /\ cache' = setitem(cache, ddom[t], Pair(impl[t]))
  /\ lru' = Touch(lru, ddom[t])
  /\ dpc' = [dpc EXCEPT ![t] = "evict"]
  /\ UNCHANGED <<cache_hits, cache_misses, ddom, attempt, impl, dret,
                 queried, prev, budget, waited, dnsRest, orchVars, proxyVars, smtpVars, leafVars, rateVars>>

\* The LRU eviction, the end of the with block and the return
\* (local_dns_checker.py:116-122)
DEvict(t) ==
  /\ dpc[t] = "evict"
  /\ cache_lock = t
  /\ cache' = IF Evicts(cache) THEN popitem_first(cache) ELSE cache
  /\ lru' = IF Evicts(cache)
              THEN SelectSeq(lru, LAMBDA d : d # cache[1].dom) ELSE lru
  /\ cache_lock' = 0
  /\ dret' = [dret EXCEPT ![t] = Pair(impl[t])]
  /\ dpc' = [dpc EXCEPT ![t] = "done"]
  /\ UNCHANGED <<cache_hits, cache_misses, ddom, attempt, impl, queried, prev,
                 budget, waited, dnsRest, orchVars, proxyVars, smtpVars, leafVars, rateVars>>

\* A thread that is in no check_domain call calls clear_cache
\* (local_dns_checker.py:283-289)
DClear(t) ==
  /\ t \in callers
  /\ dpc[t] \in {"idle", "done"}
  /\ budget > 0
  /\ cache_lock = 0
  /\ budget' = budget - 1
  /\ cache' = <<>>
  /\ lru' = <<>>
  /\ cache_hits' = 0
  /\ cache_misses' = 0
  /\ prev' = [prev EXCEPT ![t] = LastCall(t)]
  /\ dpc' = [dpc EXCEPT ![t] = "idle"]
  /\ UNCHANGED <<cache_lock, ddom, attempt, impl, dret, queried, waited, dnsRest, orchVars, proxyVars, smtpVars, leafVars, rateVars>>

DnsInitWith(cs, kinds) ==
  /\ checker \in kinds
  /\ callers = cs
  /\ cache = <<>>
  /\ cache_lock = 0
  /\ cache_hits = 0
  /\ cache_misses = 0
  /\ dpc = [t \in Threads |-> "idle"]
  /\ ddom = [t \in Threads |-> NoDomain]
  /\ attempt = [t \in Threads |-> 0]
  /\ impl = [t \in Threads |-> NoImpl]
  /\ dret = [t \in Threads |-> NoReturn]
  /\ queried = [t \in Threads |-> FALSE]
  /\ prev = [t \in Threads |-> NoPrev]
  /\ budget = MaxCalls
  /\ waited = [t \in Threads |-> 0]
  /\ lru = <<>>

DnsNext ==
  \/ \E t \in Threads, d \in DomainArgs : DCall(t, d)
  \/ \E t \in Threads :
       \/ DLookup(t) \/ DQuery(t) \/ DRequest(t)
       \/ DInsert(t) \/ DEvict(t) \/ DClear(t)


(***************************************************************************)
(* ProxyManager                                                            *)
(***************************************************************************)

\* len(self.proxies); the proxies are numbered 0..NProxies-1 as in the list.
NProxies == 2
Proxies == 0..(NProxies - 1)

\* The threads that may call the manager: enough for two callers per proxy.
PThreads == Threads \cup 1..(2 * NProxies)

\* self.rate_limit_seconds, in clock ticks
rate_limit_seconds == 2

\* The clock runs for Horizon ticks after the manager is built.
Horizon == 3

\* How many get_next_proxy and get_random_proxy calls a run starts.
MaxProxyCalls == 4

\* last_used is 0.0 for a fresh proxy (proxy_manager.py:103) and time.time()
\* is far above rate_limit_seconds: the clock starts at rate_limit_seconds.
StartTime == rate_limit_seconds

NoProxy == -1

\* `time_since_last_use >= self.rate_limit_seconds`
\* (proxy_manager.py:131-133, 168-169)
availableBroken(current_time, lu) == current_time - lu >= 0

available(current_time, lu) == current_time - lu >= rate_limit_seconds

\* min(self.proxies, key=lambda p: p['last_used'])['last_used']
oldest_last_used == 
  CHOOSE m \in {last_used[p] : p \in Proxies} : \A p \in Proxies : m <= last_used[p]

\* The hand-out that stamps the proxy with the time it became available
DispenseBroken(t, p, current_time) ==
  /\ last_used' = [last_used EXCEPT ![p] = current_time - rate_limit_seconds]
  /\ got' = [got EXCEPT ![t] = p]
  /\ dispensed' = [dispensed EXCEPT ![p] = Append(@, current_time)]
  /\ lock' = 0
  /\ ppc' = [ppc EXCEPT ![t] = "done"]

\* The proxy p is handed to thread t at current_time: last_used is set and
\* the with block is left by the return (proxy_manager.py:134-135, 173-175).
Dispense(t, p, current_time) ==
  /\ last_used' = [last_used EXCEPT ![p] = current_time]
  /\ got' = [got EXCEPT ![t] = p]
  /\ dispensed' = [dispensed EXCEPT ![p] = Append(@, current_time)]
  /\ lock' = 0
  /\ ppc' = [ppc EXCEPT ![t] = "done"]

\* The wait taken as one interval per proxy of the rotation.
WaitOldestSerial(t, current_time) ==
  LET wait_time ==
        NProxies * rate_limit_seconds - (current_time - oldest_last_used) IN
  /\ lock' = 0
  /\ IF wait_time > 0
       THEN ppc' = [ppc EXCEPT ![t] = "sleep"] /\ wake' = [wake EXCEPT ![t] = now + wait_time]
       ELSE ppc' = [ppc EXCEPT ![t] = "lock"] /\ wake' = wake

\* The wait computed and slept with the lock still held.
WaitOldestBroken(t, current_time) ==
  LET wait_time == rate_limit_seconds - (current_time - oldest_last_used) IN
  /\ lock' = lock
  /\ IF wait_time > 0
       THEN ppc' = [ppc EXCEPT ![t] = "sleep"] /\ wake' = [wake EXCEPT ![t] = now + wait_time]
       ELSE ppc' = [ppc EXCEPT ![t] = "lock"] /\ wake' = wake

\* The end of the with block when every proxy is rate limited, and the
\* time.sleep(wait_time) that follows it outside the lock
\* (proxy_manager.py:137-145, 177-184).
WaitOldest(t, current_time) ==
  LET wait_time == rate_limit_seconds - (current_time - oldest_last_used) IN
  /\ lock' = 0
  /\ IF wait_time > 0
       THEN ppc' = [ppc EXCEPT ![t] = "sleep"] /\ wake' = [wake EXCEPT ![t] = now + wait_time]
       ELSE ppc' = [ppc EXCEPT ![t] = "lock"] /\ wake' = wake

\* A thread calls get_next_proxy or get_random_proxy; with no proxy loaded
\* either returns None at once (proxy_manager.py:118-119, 157-158).
PCall(t, fn) ==
  /\ t \in pcallers
  /\ ppc[t] \in {"idle", "done"}
  /\ pbudget > 0
  /\ pbudget' = pbudget - 1
  /\ pfn' = [pfn EXCEPT ![t] = fn]
  /\ got' = [got EXCEPT ![t] = NoProxy]
  /\ ppc' = [ppc EXCEPT ![t] = IF proxies = {} THEN "done" ELSE "lock"]
  /\ UNCHANGED <<now, last_used, current_index, lock, scanned, wake, dispensed, pcallers, proxies, scan_start, orchVars, dnsVars, smtpVars, leafVars, rateVars>>

\* `with self.lock:` is entered (proxy_manager.py:124, 163)
PAcquire(t) ==
  /\ ppc[t] = "lock"
  /\ lock = 0
  /\ lock' = t
  /\ ppc' = [ppc EXCEPT ![t] = IF pfn[t] = "next" THEN "scan" ELSE "pick"]
  /\ scanned' = [scanned EXCEPT ![t] = 0]
  /\ scan_start' = [scan_start EXCEPT ![t] = current_index]
  /\ UNCHANGED <<now, last_used, current_index, pfn, wake, got, dispensed, pbudget, pcallers, proxies, orchVars, dnsVars, smtpVars, leafVars, rateVars>>

\* The scan that leaves current_index at the proxy it returns
PScanBroken(t) ==
  /\ ppc[t] = "scan"
  /\ lock = t
  /\ LET proxy == current_index IN
     IF available(now, last_used[proxy])
       THEN Dispense(t, proxy, now) /\ UNCHANGED <<scanned, wake, current_index>>
       ELSE /\ current_index' = (current_index + 1) % NProxies
            /\ scanned' = [scanned EXCEPT ![t] = scanned[t] + 1]
            /\ ppc' = [ppc EXCEPT ![t] =
                         IF scanned[t] + 1 = NProxies THEN "oldest" ELSE "scan"]
            /\ UNCHANGED <<last_used, lock, wake, got, dispensed>>
  /\ UNCHANGED <<now, pfn, pbudget, pcallers, proxies, scan_start, orchVars, dnsVars, smtpVars, leafVars, rateVars>>

\* The scan that gives up one proxy short of the full rotation
PScanShort(t) ==
  /\ ppc[t] = "scan"
  /\ lock = t
  /\ LET proxy == current_index IN
     /\ current_index' = (current_index + 1) % NProxies
     /\ IF available(now, last_used[proxy])
          THEN Dispense(t, proxy, now) /\ UNCHANGED <<scanned, wake>>
          ELSE /\ scanned' = [scanned EXCEPT ![t] = scanned[t] + 1]
               /\ ppc' = [ppc EXCEPT ![t] =
                            IF scanned[t] + 1 >= NProxies - 1 THEN "oldest" ELSE "scan"]
               /\ UNCHANGED <<last_used, lock, wake, got, dispensed>>
  /\ UNCHANGED <<now, pfn, pbudget, pcallers, proxies, scan_start, orchVars, dnsVars, smtpVars, leafVars, rateVars>>

\* get_next_proxy: one iteration of the scan loop (proxy_manager.py:126-135)
PScan(t) ==
  /\ ppc[t] = "scan"
  /\ lock = t
  /\ LET proxy == current_index IN
     /\ current_index' = (current_index + 1) % NProxies
     /\ IF available(now, last_used[proxy])
          THEN Dispense(t, proxy, now) /\ UNCHANGED <<scanned, wake>>
          ELSE /\ scanned' = [scanned EXCEPT ![t] = scanned[t] + 1]
               /\ ppc' = [ppc EXCEPT ![t] =
                            IF scanned[t] + 1 = NProxies THEN "oldest" ELSE "scan"]
               /\ UNCHANGED <<last_used, lock, wake, got, dispensed>>
  /\ UNCHANGED <<now, pfn, pbudget, pcallers, proxies, scan_start, orchVars, dnsVars, smtpVars, leafVars, rateVars>>

\* get_next_proxy: every proxy was rate limited (proxy_manager.py:137-145)
POldest(t) ==
  /\ ppc[t] = "oldest"
  /\ lock = t
  /\ WaitOldest(t, now)
  /\ UNCHANGED <<now, last_used, current_index, pfn, scanned, got, dispensed, pbudget, pcallers, proxies, scan_start, orchVars, dnsVars, smtpVars, leafVars, rateVars>>

\* get_random_proxy: the body of the with block (proxy_manager.py:164-179)
PPick(t) ==
  /\ ppc[t] = "pick"
  /\ lock = t
  /\ LET available_proxies == {p \in Proxies : available(now, last_used[p])} IN
       IF available_proxies # {}
         THEN \E p \in available_proxies : Dispense(t, p, now) /\ UNCHANGED wake
         ELSE WaitOldest(t, now) /\ UNCHANGED <<last_used, got, dispensed>>
  /\ UNCHANGED <<now, current_index, pfn, scanned, pbudget, pcallers, proxies, scan_start, orchVars, dnsVars, smtpVars, leafVars, rateVars>>

\* time.sleep(wait_time) returns (proxy_manager.py:145-147, 184-186)
PWake(t) ==
  /\ ppc[t] = "sleep"
  /\ now >= wake[t]
  /\ ppc' = [ppc EXCEPT ![t] = "lock"]
  /\ UNCHANGED <<now, last_used, current_index, lock, pfn, scanned, wake, got,
                 dispensed, pbudget, pcallers, proxies, scan_start, orchVars, dnsVars, smtpVars, leafVars, rateVars>>

\* The clock advances.
Tick ==
  /\ now < StartTime + Horizon
  /\ now' = now + 1
  /\ UNCHANGED <<last_used, current_index, lock, ppc, pfn, scanned, wake, got,
                 dispensed, pbudget, pcallers, proxies, scan_start, orchVars, dnsVars, smtpVars, leafVars, rateVars>>

ProxyInitWith(cs, b, loaded) ==
  /\ pcallers = cs
  /\ proxies \in loaded
  /\ now = StartTime
  /\ last_used = [p \in Proxies |-> 0]
  /\ current_index = 0
  /\ lock = 0
  /\ scan_start = [t \in PThreads |-> 0]
  /\ ppc = [t \in PThreads |-> "idle"]
  /\ pfn = [t \in PThreads |-> "next"]
  /\ scanned = [t \in PThreads |-> 0]
  /\ wake = [t \in PThreads |-> 0]
  /\ got = [t \in PThreads |-> NoProxy]
  /\ dispensed = [p \in Proxies |-> <<>>]
  /\ pbudget = b

ProxyInit == ProxyInitWith(Threads, MaxProxyCalls, {Proxies})

ProxyNext ==
  \/ \E t \in PThreads, fn \in {"next", "random"} : PCall(t, fn)
  \/ \E t \in PThreads :
       PAcquire(t) \/ PScan(t) \/ POldest(t) \/ PPick(t) \/ PWake(t)
  \/ Tick

\* A burst: every caller makes one get_next_proxy call, all started together
\* (src/test_smtp_fixes.py:131-141).
BurstCall(t) ==
  /\ ppc[t] = "idle"
  /\ PCall(t, "next")

\* The clock of a burst: the statements of get_next_proxy take no time next
\* to rate_limit_seconds, so time passes only while every caller that has
\* not returned is asleep in time.sleep.
TickIdle ==
  /\ \A t \in pcallers : ppc[t] = "done" \/ (ppc[t] = "sleep" /\ now < wake[t])
  /\ \E t \in pcallers : ppc[t] = "sleep"
  /\ now < StartTime + NProxies * rate_limit_seconds
  /\ now' = now + 1
  /\ UNCHANGED <<last_used, current_index, lock, ppc, pfn, scanned, wake, got,
                 dispensed, pbudget, pcallers, proxies, scan_start, orchVars, dnsVars, smtpVars, leafVars, rateVars>>

BurstNext ==
  \/ \E t \in PThreads : BurstCall(t)
  \/ \E t \in PThreads : PAcquire(t) \/ PScan(t) \/ POldest(t) \/ PWake(t)
  \/ TickIdle

(***************************************************************************)
(* SMTPValidator                                                           *)
(***************************************************************************)

\* VALID_CODES, INVALID_CODES, MAILBOX_FULL_CODE, TEMPORARY_ERROR_CODES,
\* AMBIGUOUS_CODE (smtp_validator.py:30-34)
VALID_CODES == {250, 251}
INVALID_CODES == {550, 551, 553}
MAILBOX_FULL_CODE == 552
TEMPORARY_ERROR_CODES == {450, 451, 452, 421}
AMBIGUOUS_CODE == 252

\* What _check_rcpt_to may hand back: the codes above, 530 and 500 for the
\* codes outside every list, and 0 for an exception inside _check_rcpt_to.
RcptCodes ==
  VALID_CODES \cup INVALID_CODES \cup {MAILBOX_FULL_CODE}
    \cup TEMPORARY_ERROR_CODES \cup {AMBIGUOUS_CODE} \cup {530, 500, 0}

\* The (status, code, message, is_catchall) tuple
Outcome(status, code, message, is_catchall) ==
  [status |-> status, code |-> code, message |-> message,
   is_catchall |-> is_catchall]

NoOutcome == Outcome("-", 0, "-", FALSE)

RaisedOutcome == Outcome("raised", 0, "-", FALSE)

\* The outer `except Exception as e` of validate_mailbox
\* (smtp_validator.py:274-276)
OuterExceptBroken(t) == RaisedOutcome

OuterExcept(t) == Outcome("unknown", 0, "Error", FALSE)

\* The handler of a failed handshake (smtp_validator.py:218-221)
HandshakeFailed(t) == Outcome("unknown", 0, "SMTP handshake failed", FALSE)

\* The finally clause puts socket.socket back whether or not the connection
\* attempt raised (smtp_validator.py:205-208)
FinallyRestoresBroken(exc) == ~exc

FinallyRestores(exc) == TRUE

\* The classification of the real address's reply (smtp_validator.py:227-246):
\* the tuple returned, or NoOutcome when the code is accepted and the method
\* goes on.
RealReply(code) ==
  IF code \in INVALID_CODES \/ code = MAILBOX_FULL_CODE
    THEN Outcome("invalid", code,
                 IF code = MAILBOX_FULL_CODE THEN "Mailbox full" ELSE "message",
                 FALSE)
  ELSE IF code \in TEMPORARY_ERROR_CODES \/ code = AMBIGUOUS_CODE
            \/ code \notin VALID_CODES
    THEN Outcome("unknown", code,
                 IF code = AMBIGUOUS_CODE THEN "Ambiguous response"
                 ELSE IF code \in TEMPORARY_ERROR_CODES THEN "Temporary error"
                 ELSE "Unknown code",
                 FALSE)
  ELSE NoOutcome

\* The classification after the probe of the random address
\* (smtp_validator.py:257-272)
ProbeReply(code, ccode) ==
  IF ccode \in VALID_CODES
    THEN Outcome("catch-all", code, "Valid but catch-all enabled (risky)", TRUE)
    ELSE Outcome("valid", code, "message", FALSE)

\* The proxy of the connection smtp.connect opens: the socks default proxy
\* when socket.socket is the socks class, none otherwise.
NotConnected == <<"-">>
Direct == <<"direct">>
Through(p) == <<"proxy", p>>

ConnectsVia ==
  IF socket_socket = "socksocket" /\ default_proxy # NoProxy
    THEN Through(default_proxy) ELSE Direct

\* validate_mailbox returns r
SReturn(t, r) ==
  /\ sout' = [sout EXCEPT ![t] = r]
  /\ spc' = [spc EXCEPT ![t] = "done"]

\* A thread calls validate_mailbox(email, mx_server, check_catchall)
\* (smtp_validator.py:169-190)
SCall(t, cc) ==
  /\ t \in scallers
  /\ spc[t] \in {"idle", "done"}
  /\ sbudget > 0
  /\ sbudget' = sbudget - 1
  /\ sproxy' = [sproxy EXCEPT ![t] = NoProxy]
  /\ check_catchall' = [check_catchall EXCEPT ![t] = cc]
  /\ spc' = [spc EXCEPT ![t] = "proxy"]
  /\ via' = [via EXCEPT ![t] = NotConnected]
  /\ pending' = [pending EXCEPT ![t] = FALSE]
  /\ scode' = [scode EXCEPT ![t] = 0]
  /\ catchall_code' = [catchall_code EXCEPT ![t] = 0]
  /\ probes' = [probes EXCEPT ![t] = <<>>]
  /\ plan' = [plan EXCEPT ![t] = NoOutcome]
  /\ sout' = [sout EXCEPT ![t] = NoOutcome]
  /\ UNCHANGED <<socket_lock, socket_socket, default_proxy, original_socket,
                 scallers, reply_codes, orchVars, dnsVars, proxyVars, leafVars, rateVars>>

\* The proxy manager, when there is one and it is enabled, hands over a proxy
\* once its rate limiter lets one go; proxy stays None otherwise
\* (smtp_validator.py:190-192)
SGetProxy(t) ==
  /\ spc[t] = "proxy"
  /\ \E p \in Proxies \cup {NoProxy} : sproxy' = [sproxy EXCEPT ![t] = p]
  /\ spc' = [spc EXCEPT ![t] = "lock"]
  /\ UNCHANGED <<socket_lock, socket_socket, default_proxy, original_socket, via,
                 pending, check_catchall, scode, catchall_code, probes, plan, sout,
                 sbudget, scallers, reply_codes, orchVars, dnsVars, proxyVars, leafVars, rateVars>>

\* `with self._socket_lock: original_socket = socket.socket`
\* (smtp_validator.py:196-197)
SAcquire(t) ==
  /\ spc[t] = "lock"
  /\ socket_lock = 0
  /\ socket_lock' = t
  /\ original_socket' = [original_socket EXCEPT ![t] = socket_socket]
  /\ spc' = [spc EXCEPT ![t] = IF sproxy[t] # NoProxy THEN "setup" ELSE "connect"]
  /\ UNCHANGED <<socket_socket, default_proxy, sproxy, via, pending,
                 check_catchall, scode, catchall_code, probes, plan, sout, sbudget, scallers,
                 reply_codes, orchVars, dnsVars, proxyVars, leafVars, rateVars>>

\* self._setup_socks5_proxy(proxy) (smtp_validator.py:199-200, 84-100)
SSetup(t) ==
  /\ spc[t] = "setup"
  /\ default_proxy' = sproxy[t]
  /\ socket_socket' = "socksocket"
  /\ spc' = [spc EXCEPT ![t] = "connect"]
  /\ UNCHANGED <<socket_lock, sproxy, original_socket, via, pending,
                 check_catchall, scode, catchall_code, probes, plan, sout, sbudget, scallers,
                 reply_codes, orchVars, dnsVars, proxyVars, leafVars, rateVars>>

\* smtplib.SMTP(...) and smtp.connect(mx_server, 25): the connection is made,
\* or an exception is raised (smtp_validator.py:203-204)
SConnect(t) ==
  /\ spc[t] = "connect"
  /\ \/ via' = [via EXCEPT ![t] = ConnectsVia] /\ pending' = pending
     \/ pending' = [pending EXCEPT ![t] = TRUE] /\ via' = via
  /\ spc' = [spc EXCEPT ![t] = "finally"]
  /\ UNCHANGED <<socket_lock, socket_socket, default_proxy, sproxy,
                 original_socket, check_catchall, scode, catchall_code, probes, plan, sout,
                 sbudget, scallers, reply_codes, orchVars, dnsVars, proxyVars, leafVars, rateVars>>

\* finally: socket.socket = original_socket; socks.set_default_proxy()
\* (smtp_validator.py:205-208)
SFinally(t) ==
  /\ spc[t] = "finally"
  /\ IF FinallyRestores(pending[t])
       THEN /\ socket_socket' = original_socket[t]
            /\ default_proxy' = NoProxy
       ELSE UNCHANGED <<socket_socket, default_proxy>>
  /\ spc' = [spc EXCEPT ![t] = "release"]
  /\ UNCHANGED <<socket_lock, sproxy, original_socket, via, pending,
                 check_catchall, scode, catchall_code, probes, plan, sout, sbudget, scallers,
                 reply_codes, orchVars, dnsVars, proxyVars, leafVars, rateVars>>

\* The with block reaching to the end of the method: the lock is kept
SReleaseBroken(t) ==
  /\ spc[t] = "release"
  /\ socket_lock' = socket_lock
  /\ IF pending[t]
       THEN SReturn(t, OuterExcept(t))
       ELSE spc' = [spc EXCEPT ![t] = "handshake"] /\ sout' = sout
  /\ UNCHANGED <<socket_socket, default_proxy, sproxy, original_socket, via,
                 pending, check_catchall, scode, catchall_code, probes, plan, sbudget, scallers,
                 reply_codes, orchVars, dnsVars, proxyVars, leafVars, rateVars>>

\* The with block is left: the lock is released, and an exception of the
\* connection attempt reaches the outer except clause
\* (smtp_validator.py:196, 274-276)
SRelease(t) ==
  /\ spc[t] = "release"
  /\ socket_lock' = 0
  /\ IF pending[t]
       THEN SReturn(t, OuterExcept(t))
       ELSE spc' = [spc EXCEPT ![t] = "handshake"] /\ sout' = sout
  /\ UNCHANGED <<socket_socket, default_proxy, sproxy, original_socket, via,
                 pending, check_catchall, scode, catchall_code, probes, plan, sbudget, scallers,
                 reply_codes, orchVars, dnsVars, proxyVars, leafVars, rateVars>>

\* The handshake whose failure starts the call over
SHandshakeBroken(t) ==
  /\ spc[t] = "handshake"
  /\ \/ spc' = [spc EXCEPT ![t] = "rcpt"]
     \/ spc' = [spc EXCEPT ![t] = "proxy"]
  /\ UNCHANGED <<socket_lock, socket_socket, default_proxy, sproxy,
                 original_socket, via, pending, check_catchall, scode, catchall_code, probes,
                 plan, sout, sbudget, scallers, reply_codes, orchVars, dnsVars,
                 proxyVars, leafVars, rateVars>>

\* smtp.ehlo(), STARTTLS when offered, smtp.ehlo(): it succeeds, or it raises
\* and the handler closes the connection and returns; smtp.close() raising in
\* the handler reaches the outer except clause (smtp_validator.py:211-221)
SHandshake(t) ==
  /\ spc[t] = "handshake"
  /\ \/ spc' = [spc EXCEPT ![t] = "rcpt"] /\ sout' = sout
     \/ SReturn(t, HandshakeFailed(t))
     \/ SReturn(t, OuterExcept(t))
  /\ UNCHANGED <<socket_lock, socket_socket, default_proxy, sproxy,
                 original_socket, via, pending, check_catchall, scode, catchall_code, probes,
                 plan, sbudget, scallers, reply_codes, orchVars, dnsVars,
                 proxyVars, leafVars, rateVars>>

\* code, message = self._check_rcpt_to(smtp, email) and the classification
\* of the code (smtp_validator.py:224-251)
SRcpt(t) ==
  /\ spc[t] = "rcpt"
  /\ \E code \in reply_codes :
       /\ scode' = [scode EXCEPT ![t] = code]
       /\ probes' = [probes EXCEPT ![t] = Append(@, "real")]
       /\ IF RealReply(code) # NoOutcome
            THEN /\ plan' = [plan EXCEPT ![t] = RealReply(code)]
                 /\ spc' = [spc EXCEPT ![t] = "quit"]
            ELSE IF check_catchall[t]
              THEN /\ plan' = plan
                   /\ spc' = [spc EXCEPT ![t] = "probe"]
              ELSE /\ plan' = [plan EXCEPT ![t] =
                                 Outcome("valid", code, "message", FALSE)]
                   /\ spc' = [spc EXCEPT ![t] = "quit"]
  /\ UNCHANGED <<socket_lock, socket_socket, default_proxy, sproxy,
                 original_socket, via, pending, check_catchall, catchall_code,
                 sout, sbudget, scallers, reply_codes, orchVars, dnsVars,
                 proxyVars, leafVars, rateVars>>

\* The probe whose classification is returned with the session left open
SProbeBroken(t) ==
  /\ spc[t] = "probe"
  /\ \E cc \in reply_codes :
       /\ catchall_code' = [catchall_code EXCEPT ![t] = cc]
       /\ probes' = [probes EXCEPT ![t] = Append(@, "random")]
       /\ plan' = [plan EXCEPT ![t] = ProbeReply(scode[t], cc)]
       /\ SReturn(t, ProbeReply(scode[t], cc))
  /\ UNCHANGED <<socket_lock, socket_socket, default_proxy, sproxy,
                 original_socket, via, pending, check_catchall, scode,
                 sbudget, scallers, reply_codes, orchVars, dnsVars, proxyVars, leafVars, rateVars>>

\* The probe of the random address at the same domain
\* (smtp_validator.py:252-264)
SProbe(t) ==
  /\ spc[t] = "probe"
  /\ \E cc \in reply_codes :
       /\ catchall_code' = [catchall_code EXCEPT ![t] = cc]
       /\ probes' = [probes EXCEPT ![t] = Append(@, "random")]
       /\ plan' = [plan EXCEPT ![t] = ProbeReply(scode[t], cc)]
  /\ spc' = [spc EXCEPT ![t] = "quit"]
  /\ UNCHANGED <<socket_lock, socket_socket, default_proxy, sproxy,
                 original_socket, via, pending, check_catchall, scode, sout,
                 sbudget, scallers, reply_codes, orchVars, dnsVars, proxyVars, leafVars, rateVars>>

\* smtp.quit() and the return that follows it; smtp.quit() raising (the
\* server has closed the connection) reaches the outer except clause
\* (smtp_validator.py:228-233, 237-246, 260-262, 267-276)
SQuit(t) ==
  /\ spc[t] = "quit"
  /\ \/ SReturn(t, plan[t])
     \/ SReturn(t, OuterExcept(t))
  /\ UNCHANGED <<socket_lock, socket_socket, default_proxy, sproxy,
                 original_socket, via, pending, check_catchall, scode, catchall_code, probes,
                 plan, sbudget, scallers, reply_codes, orchVars, dnsVars,
                 proxyVars, leafVars, rateVars>>

\* How many validate_mailbox calls a run starts.
MaxSmtpCalls == 2

SmtpInitWith(cs, codes) ==
  /\ scallers = cs
  /\ reply_codes = codes
  /\ socket_lock = 0
  /\ socket_socket = "socket"
  /\ default_proxy = NoProxy
  /\ spc = [t \in Threads |-> "idle"]
  /\ sproxy = [t \in Threads |-> NoProxy]
  /\ original_socket = [t \in Threads |-> "socket"]
  /\ via = [t \in Threads |-> NotConnected]
  /\ pending = [t \in Threads |-> FALSE]
  /\ check_catchall = [t \in Threads |-> TRUE]
  /\ scode = [t \in Threads |-> 0]
  /\ catchall_code = [t \in Threads |-> 0]
  /\ probes = [t \in Threads |-> <<>>]
  /\ plan = [t \in Threads |-> NoOutcome]
  /\ sout = [t \in Threads |-> NoOutcome]
  /\ sbudget = MaxSmtpCalls

SmtpNext ==
  \/ \E t \in Threads, cc \in BOOLEAN : SCall(t, cc)
  \/ \E t \in Threads :
       \/ SGetProxy(t) \/ SAcquire(t) \/ SSetup(t) \/ SConnect(t) \/ SFinally(t) \/ SRelease(t)
       \/ SHandshake(t) \/ SRcpt(t) \/ SProbe(t) \/ SQuit(t)

(***************************************************************************)
(* HTTPDNSChecker: the rate limiter and the requests                       *)
(***************************************************************************)

\* self.rate_limit_delay, in clock ticks
rate_limit_delay == 1

\* How many _check_domain_impl calls a run starts.
MaxHttpCalls == 2

\* last_request_time is 0 at construction (http_dns_checker.py:53) and
\* time.time() is far above rate_limit_delay.
StartClock == rate_limit_delay

\* A thread enters _check_domain_impl (http_dns_checker.py:105-120)
HCall(t) ==
  /\ t \in hcallers
  /\ hpc[t] \in {"idle", "done"}
  /\ hbudget > 0
  /\ hbudget' = hbudget - 1
  /\ hattempt' = [hattempt EXCEPT ![t] = 0]
  /\ hpc' = [hpc EXCEPT ![t] = "limit"]
  /\ UNCHANGED <<clock, last_request_time, rate_limit_lock, hwake, requests,
                 hcallers, orchVars, dnsVars, proxyVars, smtpVars, leafVars>>

\* _apply_rate_limit: the lock is taken, the time is read and the sleep is
\* started when the last stamp is too recent (http_dns_checker.py:312-318)
ApplyRateLimit(t) ==
  /\ hpc[t] = "limit"
  /\ rate_limit_lock = 0
  /\ rate_limit_lock' = t
  /\ LET time_since_last == clock - last_request_time IN
       IF time_since_last < rate_limit_delay
         THEN /\ hwake' = [hwake EXCEPT ![t] = clock + (rate_limit_delay - time_since_last)]
              /\ hpc' = [hpc EXCEPT ![t] = "limit_sleep"]
         ELSE /\ hwake' = hwake
              /\ hpc' = [hpc EXCEPT ![t] = "stamp"]
  /\ UNCHANGED <<clock, last_request_time, hattempt, requests, hbudget,
                 hcallers, orchVars, dnsVars, proxyVars, smtpVars, leafVars>>

\* time.sleep(sleep_time) returns (http_dns_checker.py:318)
RateSleep(t) ==
  /\ hpc[t] = "limit_sleep"
  /\ clock >= hwake[t]
  /\ hpc' = [hpc EXCEPT ![t] = "stamp"]
  /\ UNCHANGED <<clock, last_request_time, rate_limit_lock, hattempt, hwake,
                 requests, hbudget, hcallers, orchVars, dnsVars, proxyVars,
                 smtpVars, leafVars>>

\* self.last_request_time = time.time() and the end of the with block
\* (http_dns_checker.py:320)
RateStamp(t) ==
  /\ hpc[t] = "stamp"
  /\ last_request_time' = clock
  /\ rate_limit_lock' = 0
  /\ hpc' = [hpc EXCEPT ![t] = "request"]
  /\ UNCHANGED <<clock, hattempt, hwake, requests, hbudget, hcallers, orchVars,
                 dnsVars, proxyVars, smtpVars, leafVars>>

\* One turn of the retry loop: requests.get is called; the answer ends the
\* call, or the loop sleeps retry_delay (retry_delay * 2 ** attempt after a
\* 429) and goes round again while attempts are left
\* (http_dns_checker.py:123-231)
HRequest(t) ==
  /\ hpc[t] = "request"
  /\ requests' = Append(requests, clock)
  /\ \E answer \in {"final", "retry", "429"} :
       IF answer = "final" \/ ~(hattempt[t] < max_retries - 1)
         THEN /\ hpc' = [hpc EXCEPT ![t] = "done"]
              /\ hwake' = hwake
         ELSE /\ hpc' = [hpc EXCEPT ![t] = "retry_sleep"]
              /\ hwake' = [hwake EXCEPT ![t] =
                             clock + (IF answer = "429"
                                        THEN retry_delay * 2 ^ hattempt[t]
                                        ELSE retry_delay)]
  /\ UNCHANGED <<clock, last_request_time, rate_limit_lock, hattempt, hbudget,
                 hcallers, orchVars, dnsVars, proxyVars, smtpVars, leafVars>>

\* time.sleep of the retry loop returns and `continue` starts the next
\* attempt (http_dns_checker.py:155-156, 171-172)
RetrySleep(t) ==
  /\ hpc[t] = "retry_sleep"
  /\ clock >= hwake[t]
  /\ hattempt' = [hattempt EXCEPT ![t] = @ + 1]
  /\ hpc' = [hpc EXCEPT ![t] = "request"]
  /\ UNCHANGED <<clock, last_request_time, rate_limit_lock, hwake, requests,
                 hbudget, hcallers, orchVars, dnsVars, proxyVars, smtpVars,
                 leafVars>>

\* The clock advances.
ClockTick ==
  /\ clock < StartClock + Horizon
  /\ clock' = clock + 1
  /\ UNCHANGED <<last_request_time, rate_limit_lock, hpc, hattempt, hwake,
                 requests, hbudget, hcallers, orchVars, dnsVars, proxyVars,
                 smtpVars, leafVars>>

RateInitWith(cs) ==
  /\ hcallers = cs
  /\ clock = StartClock
  /\ last_request_time = 0
  /\ rate_limit_lock = 0
  /\ hpc = [t \in Threads |-> "idle"]
  /\ hattempt = [t \in Threads |-> 0]
  /\ hwake = [t \in Threads |-> 0]
  /\ requests = <<>>
  /\ hbudget = MaxHttpCalls

RateParked == RateInitWith({})

RateNext ==
  \/ \E t \in Threads :
       \/ HCall(t) \/ ApplyRateLimit(t) \/ RateSleep(t) \/ RateStamp(t)
       \/ HRequest(t) \/ RetrySleep(t)
  \/ ClockTick

(***************************************************************************)
(* Specifications                                                          *)
(***************************************************************************)

(***************************************************************************)
(* DisposableDomainChecker                                                 *)
(***************************************************************************)

\* sep.join(parts)
RECURSIVE Join(_, _)
Join(parts, sep) ==
  IF Len(parts) = 0 THEN <<>>
  ELSE IF Len(parts) = 1 THEN parts[1]
  ELSE parts[1] \o <<sep>> \o Join(Tail(parts), sep)

\* DisposableDomainChecker.is_disposable: None has no split (AttributeError),
\* an email without '@' has no second piece (IndexError); both are caught.
is_disposableBroken(e) ==
  IF disposable_domains = {} THEN FALSE
  ELSE IF e = None THEN FALSE
  ELSE IF Len(Split(e, "@")) < 2 THEN FALSE
  ELSE Lower(Split(e, "@")[2]) \in disposable_domains

is_disposable(e) ==
  IF disposable_domains = {} THEN FALSE
  ELSE IF e = None THEN FALSE
  ELSE IF Len(Split(e, "@")) < 2 THEN FALSE
  ELSE LET domain == Lower(Split(e, "@")[2])
           parts == Split(domain, ".")
       IN \/ domain \in disposable_domains
          \/ \E i \in 1..Len(parts) :
               Join(SubSeq(parts, i, Len(parts)), ".") \in disposable_domains

(***************************************************************************)
(* HTTPDNSChecker._parse_dns_response                                      *)
(***************************************************************************)

\* A JSON value as json() hands it over: <<tag>> or <<tag, payload>>. A dict
\* is a function from its keys to values.
JNone == <<"none">>
JInt(n) == <<"int", n>>
JStr(s) == <<"str", s>>
JList(l) == <<"list", l>>
JDict(f) == <<"dict", f>>

\* isinstance(x, dict), isinstance(x, str)
IsDict(x) == x[1] = "dict"
IsStr(x) == x[1] = "str"

\* `k in d` and d.get(k, default) of a dict
HasKey(d, k) == k \in DOMAIN d[2]
Get(d, k, default) == IF HasKey(d, k) THEN d[2][k] ELSE default

\* The truth value of x in `if x` and `x and ...`
Truthy(x) ==
  CASE x[1] = "none" -> FALSE
    [] x[1] = "int" -> x[2] # 0
    [] x[1] = "str" -> x[2] # ""
    [] x[1] = "list" -> x[2] # <<>>
    [] x[1] = "dict" -> DOMAIN x[2] # {}

\* Whether len(x) is defined; len(None) and len(5) raise TypeError
HasLen(x) == x[1] \in {"str", "list", "dict"}

\* What `for e in x` runs over: the items of a list, the characters of a
\* string (the strings met in this place have one character)
Items(x) ==
  CASE x[1] = "list" -> x[2]
    [] x[1] = "str" -> <<x>>

\* An exception that leaves the try block
ParseRaised(exc) == <<"raised", exc, "">>
IsParseRaised(r) == Len(r) = 3

\* `isinstance(mx, dict) and 'exchange' in mx and mx['exchange']`
\* (http_dns_checker.py:277)
ValidMx(mx) == IsDict(mx) /\ HasKey(mx, "exchange") /\ Truthy(mx[2]["exchange"])

\* The two accepted forms of an A record (http_dns_checker.py:291-297)
ValidA(a) ==
  \/ IsStr(a) /\ Truthy(a)
  \/ IsDict(a) /\ HasKey(a, "address") /\ Truthy(a[2]["address"])

\* The A record fallback (http_dns_checker.py:287-303)
parse_a_records(records) ==
  LET a_records == Get(records, "A", JList(<<>>)) IN
  IF Truthy(a_records) /\ ~HasLen(a_records) THEN ParseRaised("TypeError")
  ELSE IF /\ Truthy(a_records)
          /\ \E i \in 1..Len(Items(a_records)) : ValidA(Items(a_records)[i])
    THEN <<TRUE, "">>
  ELSE <<FALSE, "No MX or A records found">>

\* The same without the test `if mx_records`: the A records decide whenever
\* no MX record is valid.
parse_mx_recordsBroken(records) ==
  LET mx_records == Get(records, "MX", JList(<<>>)) IN
  IF Truthy(mx_records) /\ ~HasLen(mx_records) THEN ParseRaised("TypeError")
  ELSE IF /\ Truthy(mx_records)
          /\ \E i \in 1..Len(Items(mx_records)) : ValidMx(Items(mx_records)[i])
    THEN <<TRUE, "">>
  ELSE parse_a_records(records)

\* The MX records first (http_dns_checker.py:271-283)
parse_mx_records(records) ==
  LET mx_records == Get(records, "MX", JList(<<>>)) IN
  IF Truthy(mx_records) /\ ~HasLen(mx_records) THEN ParseRaised("TypeError")
  ELSE IF Truthy(mx_records)
    THEN IF \E i \in 1..Len(Items(mx_records)) : ValidMx(Items(mx_records)[i])
           THEN <<TRUE, "">>
           ELSE <<FALSE, "MX records exist but are invalid">>
  ELSE parse_a_records(records)

\* The body of the try block (http_dns_checker.py:263-303): .get of a value
\* that is no dict raises AttributeError
parse_body(data) ==
  IF ~IsDict(data) THEN ParseRaised("AttributeError")
  ELSE IF Get(data, "status", JStr("")) # JStr("OK") THEN None
  ELSE LET records == Get(data, "records", JDict(<<>>)) IN
       IF ~IsDict(records) THEN ParseRaised("AttributeError")
       ELSE parse_mx_records(records)

\* The same without `except Exception`
_parse_dns_responseBroken(data) == parse_body(data)

\* _parse_dns_response: `except Exception: return None`
\* (http_dns_checker.py:262-308)
_parse_dns_response(data) ==
  LET r == parse_body(data) IN IF IsParseRaised(r) THEN None ELSE r

(***************************************************************************)
(* The leaf methods, each applied once to an argument                      *)
(***************************************************************************)

NoOut == [done |-> FALSE]

\* A method returned v
Out(v) == [done |-> TRUE, raised |-> FALSE, value |-> v]

\* The longest local part among the arguments of validate
MaxLocalLen == 3

\* The arguments of EmailSyntaxValidator.validate: every local part of up to
\* MaxLocalLen characters before each of the domains, and some strings that
\* are not of that form
SyntaxArgs ==
  LET LocalChars == {"a", "1", ".", "_", "+", "-", "\""}
      Locals == UNION {[1..n -> LocalChars] : n \in 0..MaxLocalLen}
      DomainParts ==
        { <<>>, <<"b">>, <<"b", ".", "c", "o">>, <<"b", ".", "z", "z">>,
          <<"b", ".", "c">>, <<"b", ".", "c", "1">>,
          <<"b", ".", ".", "c", "o">>, <<"-", "b", ".", "c", "o">>,
          <<"b", "_", ".", "c", "o">>, <<"t", "e", "s", "t", ".", "c", "o", "m">>,
          <<"[", "1", "]">>, <<"g", "m", "a", "i", "l", ".", "c", "o", "m">> }
  IN {l \o <<"@">> \o d : l \in Locals, d \in DomainParts}
       \cup { <<>>, None, <<"a">>, <<" ", "a", "@", "b", ".", "c", "o", " ">>,
              <<"a", "@", "b", "@", "b", ".", "c", "o">> }

\* The arguments of is_disposable
DisposableArgs ==
  { <<>>, None, <<"a", "b">>, <<"@">>, <<"a", "@">>,
    <<"a", "@", "b", ".", "c", "o">>, <<"a", "@", "B", ".", "c", "o">>,
    <<"a", "@", "a", ".", "b", ".", "c", "o">>, <<"a", "@", "a", "b", ".", "c", "o">>,
    <<"a", "@", "b", ".", "c", "o", ".", "z", "z">>, <<"a", "@", "c", "o">>,
    <<"a", "@", "b", ".", "c", "o", "@", "z", "z">> }

\* The sets a disposable domains file may hold
DisposableSets == SUBSET {<<"b", ".", "c", "o">>, <<"c", "o">>, <<"z", "z">>}

\* A key that a dict does not have
Missing == <<"missing">>

\* The dict with the keys of v whose value is not Missing
MkDict(v) == JDict([k \in {k \in DOMAIN v : v[k] # Missing} |-> v[k]])

\* The longest MX or A list among the API responses
MaxRecords == 2

\* The arguments of _parse_dns_response: the responses with every status,
\* every MX and A list of up to MaxRecords records, and values of the wrong
\* type or no value in each place
ParseArgs ==
  LET MxRecord == { MkDict([exchange |-> JStr("mail")]), MkDict([exchange |-> JStr("")]),
                    MkDict([exchange |-> JNone]), MkDict([exchange |-> Missing]),
                    JStr("x") }
      ARecord == { JStr("192.0.2.1"), JStr(""), MkDict([address |-> JStr("192.0.2.1")]),
                   MkDict([address |-> JStr("")]), JInt(5) }
      Lists(S) == {JList(l) : l \in UNION {[1..n -> S] : n \in 0..MaxRecords}}
      WrongType == {Missing, JNone, JInt(5), JStr("x")}
      Records == { MkDict([MX |-> m, A |-> a]) :
                     m \in Lists(MxRecord) \cup WrongType,
                     a \in Lists(ARecord) \cup WrongType }
      Status == {JStr("OK"), JStr("ERROR"), Missing, JNone, JInt(5)}
  IN { MkDict([status |-> st, records |-> r]) :
         st \in Status, r \in Records \cup {Missing, JNone, JStr("x"), JList(<<>>)} }
       \cup {JNone, JList(<<>>), JStr("x")}

SyntaxValidate ==
  /\ leaf = "validate"
  /\ ~lout.done
  /\ lout' = Out(validate(larg))
  /\ UNCHANGED <<leaf, larg, disposable_domains, orchVars, dnsVars, proxyVars, smtpVars, rateVars>>

DisposableCheck ==
  /\ leaf = "is_disposable"
  /\ ~lout.done
  /\ lout' = Out(is_disposable(larg))
  /\ UNCHANGED <<leaf, larg, disposable_domains, orchVars, dnsVars, proxyVars, smtpVars, rateVars>>

\* _parse_dns_response(domain, larg) returns or raises
ParseResponse ==
  /\ leaf = "_parse_dns_response"
  /\ ~lout.done
  /\ lout' = LET r == _parse_dns_response(larg) IN
             IF IsParseRaised(r)
               THEN [done |-> TRUE, raised |-> TRUE, value |-> r] ELSE Out(r)
  /\ UNCHANGED <<leaf, larg, disposable_domains, orchVars, dnsVars, proxyVars, smtpVars, rateVars>>

LeafInit ==
  /\ lout = NoOut
  /\ \/ leaf = "validate" /\ larg \in SyntaxArgs /\ disposable_domains = {}
     \/ leaf = "_parse_dns_response" /\ larg \in ParseArgs /\ disposable_domains = {}
     \/ /\ leaf = "is_disposable"
        /\ larg \in DisposableArgs
        /\ disposable_domains \in DisposableSets

LeafNext == SyntaxValidate \/ DisposableCheck \/ ParseResponse

LeafParked ==
  leaf = "none" /\ larg = <<>> /\ lout = NoOut /\ disposable_domains = {}

\* The state of a component that a specification does not run.
OrchParked ==
  /\ cfg = [deliverable_address |-> TRUE, smtp_validation |-> TRUE,
            smtp_validator |-> TRUE, dns_checker |-> "Mock",
            syntax_validator |-> "Mock"]
  /\ pyAlias = TRUE
  /\ raw = <<>>
  /\ email = <<>>
  /\ mpc = "idle"
  /\ branch = "none"
  /\ ret = NoResult
  /\ wpc = "unborn"
  /\ wres = NoResult
  /\ calls = <<>>
  /\ mx_servers = <<>>
  /\ shut = FALSE

DnsParked == DnsInitWith({}, {"local"})

SmtpParked == SmtpInitWith({}, {})

\* One validate call of EmailValidationService.
InitOrch == OrchInit /\ DnsParked /\ ProxyInit /\ SmtpParked /\ LeafParked /\ RateParked

SpecOrch == InitOrch /\ [][OrchNext]_vars

\* The same with a fair scheduler: future.result is bounded by global_timeout
\* and the worker thread ends once it has no work, so a step that can be
\* taken is taken.
SpecOrchFair == SpecOrch /\ WF_vars(OrchNext)

\* Concurrent callers of one DNS checker.
InitDNS ==
  OrchParked /\ DnsInitWith(Threads, {"local", "http"}) /\ ProxyInit /\ SmtpParked /\ LeafParked /\ RateParked

SpecDNS == InitDNS /\ [][DnsNext]_vars

\* One caller of one DNS checker: its calls follow one another.
InitDNSSeq ==
  OrchParked /\ DnsInitWith({1}, {"local", "http"}) /\ ProxyInit /\ SmtpParked /\ LeafParked /\ RateParked

SpecDNSSeq == InitDNSSeq /\ [][DnsNext]_vars

\* Concurrent callers of one ProxyManager.
InitProxy ==
  /\ OrchParked /\ DnsParked /\ SmtpParked /\ LeafParked /\ RateParked
  /\ ProxyInitWith(Threads, MaxProxyCalls, {{}, Proxies})

SpecProxy == InitProxy /\ [][ProxyNext]_vars

\* Two get_next_proxy calls per proxy, started together.
InitBurst ==
  /\ OrchParked /\ DnsParked /\ SmtpParked /\ LeafParked /\ RateParked
  /\ ProxyInitWith(1..(2 * NProxies), 2 * NProxies, {Proxies})

SpecBurst == InitBurst /\ [][BurstNext]_vars

\* The same with a fair scheduler: a caller that can run does run, and
\* time.sleep returns.
SpecBurstFair == SpecBurst /\ WF_vars(BurstNext)

\* Concurrent callers of one SMTPValidator; the servers answer 250 or 550.
InitSMTP ==
  /\ OrchParked /\ DnsParked /\ ProxyInit /\ SmtpInitWith(Threads, {250, 550})
  /\ LeafParked /\ RateParked

SpecSMTP == InitSMTP /\ [][SmtpNext]_vars

\* One caller of one SMTPValidator; the servers answer with any code.
InitSMTPSeq ==
  /\ OrchParked /\ DnsParked /\ ProxyInit /\ SmtpInitWith({1}, RcptCodes)
  /\ LeafParked /\ RateParked

SpecSMTPSeq == InitSMTPSeq /\ [][SmtpNext]_vars

\* One call of a leaf method.
InitLeaf ==
  OrchParked /\ DnsParked /\ ProxyInit /\ SmtpParked /\ LeafInit /\ RateParked

SpecLeaf == InitLeaf /\ [][LeafNext]_vars

\* Concurrent callers of HTTPDNSChecker._check_domain_impl.
InitRate ==
  /\ OrchParked /\ DnsParked /\ ProxyInit /\ SmtpParked /\ LeafParked
  /\ RateInitWith(Threads)

SpecRate == InitRate /\ [][RateNext]_vars


(***************************************************************************)
(* Properties                                                              *)
(***************************************************************************)

Fns == [i \in 1..Len(calls) |-> calls[i].fn]

IsPrefix(a, b) == Len(a) <= Len(b) /\ SubSeq(b, 1, Len(a)) = a

StageOrder == <<"syntax", "disposable", "dns", "get_mx_servers", "smtp">>

\* The call is a stage's definitive failure: the syntax check or the
\* disposable check failed, or the DNS check failed while deliverability
\* checking is on.
DefinitiveFailure(c) ==
  /\ c.out = "fail"
  /\ c.fn \in {"syntax", "disposable", "dns"}
  /\ c.fn = "dns" => cfg.deliverable_address

\* C1: the collaborators are called in the order syntax, disposable, DNS
\* (check_domain, then get_mx_servers), SMTP, each at most once and none
\* before its predecessors; a call that is a definitive failure is the last
\* call made for the email, and the worker has returned invalid.
C1_StagesInOrder ==
  /\ IsPrefix(Fns, StageOrder)
  /\ \A i \in 1..Len(calls) :
       DefinitiveFailure(calls[i]) =>
         /\ i = Len(calls)
         /\ wres.kind = "result" /\ wres.category = "invalid" /\ ~wres.is_valid

\* The DNS check failed with deliverability checking on and an SMTP validator
\* configured: the pipeline stopped after three calls.
C1_Witness ==
  /\ cfg.deliverable_address /\ cfg.smtp_validation /\ cfg.smtp_validator
  /\ Len(calls) = 3
  /\ calls[3].fn = "dns" /\ calls[3].out = "fail"
  /\ wpc = "exited"

Categories == {"valid", "risk", "invalid", "unknown"}

C2_Safe ==
  /\ mpc # "raised"
  /\ mpc = "returned" =>
       /\ ret.kind = "result"
       /\ ret.email = email
       /\ ret.is_valid \in BOOLEAN
       /\ ret.category \in Categories
       /\ wres.kind = "raised" => ret.category = "unknown"
  /\ mpc # "returned" => ret = NoResult

\* C2: validate never lets an exception escape; what it returns is one
\* (email, is_valid, reason, category) tuple with a category among the four,
\* category unknown when a collaborator raised; it returns once (the value
\* returned never changes) and, the scheduler being fair, it does return.
C2_AlwaysOneTuple ==
  /\ []C2_Safe
  /\ [][mpc = "returned" => mpc' = "returned" /\ ret' = ret]_vars
  /\ <>(mpc = "returned")

\* A collaborator raised, and validate returned unknown.
C2_Witness ==
  /\ mpc = "returned"
  /\ wres.kind = "raised" /\ wres.exc = "Exception"
  /\ ret.category = "unknown"

\* C3: when validate_mailbox was called, the worker's tuple follows its
\* status: catch-all gives risk, valid gives valid, invalid gives invalid with
\* is_valid false, unknown gives unknown with is_valid true; and validate
\* returns that tuple when the worker finished in time.
C3_SmtpMapping ==
  (wres.kind = "result" /\ calls # <<>> /\ calls[Len(calls)].fn = "smtp") =>
    LET st == calls[Len(calls)].out IN
    /\ st = "catch-all" => wres.category = "risk"
    /\ st = "valid" => wres.category = "valid"
    /\ st = "invalid" => wres.category = "invalid" /\ ~wres.is_valid
    /\ st = "unknown" => wres.category = "unknown" /\ wres.is_valid
    /\ (mpc = "returned" /\ branch = "ok") => ret = wres

\* validate_mailbox said unknown and validate returned unknown, is_valid true.
C3_Witness ==
  /\ mpc = "returned" /\ branch = "ok"
  /\ calls # <<>> /\ calls[Len(calls)].fn = "smtp"
  /\ calls[Len(calls)].out = "unknown"
  /\ ret.category = "unknown" /\ ret.is_valid

\* C4: once future.result has timed out, validate never joins the worker
\* thread, and it returns category unknown with the timeout reason.
C4_TimeoutDoesNotWait ==
  /\ branch = "timeout" => mpc # "joining"
  /\ (branch = "timeout" /\ mpc = "returned") =>
       ret = Result(email, TRUE, "Validation timeout exceeded", "unknown")

\* validate has returned the timeout tuple while the worker is still in the
\* DNS stage.
C4_Witness ==
  /\ branch = "timeout" /\ mpc = "returned"
  /\ wpc = "dns" /\ wres = NoResult
  /\ ret.category = "unknown"


\* Every (success, error, cacheable) triple _check_domain_impl can return.
ImplResults ==
  LET attempts == 0..(max_retries - 1)
      localH == {local_query(st, o, a) :
                   st \in {"mx", "a", "aaaa"}, o \in LocalOutcomes, a \in attempts}
      httpH == {http_request(o, p, a) :
                  o \in HttpOutcomes, p \in ParseResults \cup {None}, a \in attempts}
  IN {h.val : h \in {x \in localH \cup httpH : x.act = "return"}}

\* The (has_records, error) pairs of the transient outcomes.
TransientPairs == {Pair(r) : r \in {x \in ImplResults : ~x.cacheable}}

\* C5: no entry of the cache holds the pair of a transient outcome
\* (cacheable = false): such an outcome neither creates an entry nor
\* overwrites one.
C5_NoTransientEntry ==
  \A i \in 1..Len(cache) : cache[i].val \notin TransientPairs

\* A lookup of a domain ended transient while the cache holds an entry for
\* that domain, which another thread's definitive lookup wrote.
C5_Witness ==
  \E t \in Threads :
    /\ dpc[t] = "done" /\ impl[t] # NoImpl /\ ~impl[t].cacheable
    /\ InCache(cache, ddom[t])

\* C6: whenever the cache lock is free the cache holds at most cache_size
\* entries.
C6_SizeBounded == cache_lock = 0 => Len(cache) <= cache_size

\* An insertion has pushed the size above cache_size; the lock is still held.
C6_Witness == cache_lock # 0 /\ Len(cache) = cache_size + 1

\* The step in which thread t finds its domain in the cache.
HitStep(t) ==
  /\ dpc[t] = "lookup" /\ dpc'[t] # "lookup"
  /\ InCache(cache, ddom[t])

\* C7: a call for a cached domain returns the cached pair in the very step of
\* the lookup, makes no network query, adds one to the hit counter and leaves
\* the miss counter alone; and a hit that follows the same caller's call for
\* the same domain returns what that call returned.
C7_HitIsLocal ==
  /\ [][\A t \in Threads : HitStep(t) =>
          /\ dpc'[t] = "done"
          /\ dret'[t] = cache[CacheGet(cache, ddom[t])].val
          /\ ~queried'[t]
          /\ cache_hits' = cache_hits + 1
          /\ cache_misses' = cache_misses]_vars
  /\ [](\A t \in Threads :
          (dpc[t] = "done" /\ CallKind(t) = "hit" /\ prev[t].dom = ddom[t])
            => dret[t] = prev[t].val)

\* The same domain checked twice by one caller: a definitive lookup, then a hit.
C7_Witness ==
  \E t \in Threads :
    /\ dpc[t] = "done" /\ CallKind(t) = "hit"
    /\ prev[t].dom = ddom[t] /\ prev[t].kind = "definitive"
    /\ cache_hits = 1 /\ cache_misses = 1

\* C8: when a caller's check of D ended transient and its next call checks D
\* again, that call finds no entry for D and goes to the network; when it
\* obtains a definitive success, the cache holds that success for D at its
\* return.
C8_TransientThenDefinitive ==
  \A t \in Threads :
    (prev[t].kind = "transient" /\ prev[t].dom = ddom[t] /\ dpc[t] = "done") =>
      /\ CallKind(t) # "hit"
      /\ queried[t]
      /\ (impl[t].cacheable /\ impl[t].success) =>
           /\ InCache(cache, ddom[t])
           /\ cache[CacheGet(cache, ddom[t])].val = <<TRUE, "">>

\* A transient failure for D, then a definitive success for D that is cached.
C8_Witness ==
  \E t \in Threads :
    /\ prev[t].kind = "transient" /\ prev[t].dom = ddom[t]
    /\ dpc[t] = "done" /\ impl[t].cacheable /\ impl[t].success
    /\ InCache(cache, ddom[t])

\* C9: check_domain never raises: whatever the resolver or the API does, a
\* finished call has returned a (has_records, error) pair.
C9_NeverRaises ==
  \A t \in Threads :
    /\ dret[t] # RaisedOut
    /\ dpc[t] = "done" =>
         /\ Len(dret[t]) = 2
         /\ dret[t][1] \in BOOLEAN
         /\ dret[t][1] => dret[t][2] = ""

\* The resolver raised an exception that is no DNS exception, and check_domain
\* returned the temporary failure.
C9_Witness ==
  \E t \in Threads :
    /\ checker = "local"
    /\ dpc[t] = "done"
    /\ dret[t] = <<FALSE, "Unexpected error (temporary)">>

\* C10: any two times at which one proxy was handed out are at least
\* rate_limit_seconds apart.
C10_RateLimited ==
  \A p \in Proxies : \A i, j \in 1..Len(dispensed[p]) :
    i < j => dispensed[p][j] - dispensed[p][i] >= rate_limit_seconds

\* A proxy has been handed out twice, by get_next_proxy and by
\* get_random_proxy.
C10_Witness ==
  \E p \in Proxies, t, u \in Threads :
    /\ Len(dispensed[p]) = 2
    /\ t # u /\ got[t] = p /\ got[u] = p
    /\ pfn[t] = "next" /\ pfn[u] = "random"
    /\ ppc[t] = "done" /\ ppc[u] = "done"

\* C11: no thread sleeps in the rate limiter while it holds the lock of the
\* proxy manager: the holder of the lock is always inside a with block, and
\* a thread that sleeps, waits for the lock or is outside a call does not
\* hold it, so the lock is free for the other callers during every wait.
C11_NoSleepUnderLock ==
  /\ lock # 0 => ppc[lock] \in {"scan", "oldest", "pick"}
  /\ \A t \in PThreads :
       ppc[t] \in {"sleep", "lock", "idle", "done"} => lock # t

\* One caller sleeps, its wait not yet over, while another caller holds the
\* lock and looks for a proxy.
C11_Witness ==
  \E t, u \in PThreads :
    /\ t # u
    /\ ppc[t] = "sleep" /\ now < wake[t]
    /\ lock = u /\ ppc[u] \in {"scan", "pick"}

BurstDone == \A t \in pcallers : ppc[t] = "done"

C12_Timing ==
  /\ \A p \in Proxies :
       IsPrefix(dispensed[p], <<StartTime, StartTime + rate_limit_seconds>>)
  /\ now - StartTime <= rate_limit_seconds
  /\ now - StartTime < 2 * rate_limit_seconds
  /\ BurstDone =>
       /\ \A t \in pcallers : got[t] \in Proxies
       /\ \A p \in Proxies : Len(dispensed[p]) = 2
       /\ now - StartTime = rate_limit_seconds

\* C12: of 2P get_next_proxy calls started together on P proxies, P are
\* served at once and P after one rate-limit interval R, each proxy once in
\* each round; all the calls do return, and when the last has returned the
\* time elapsed is R, less than 2R.
C12_BurstCompletes == []C12_Timing /\ <>BurstDone

\* The burst is over: every caller has its proxy, one interval after the start.
C12_Witness ==
  /\ pcallers = 1..(2 * NProxies)
  /\ BurstDone
  /\ \A p \in Proxies : dispensed[p] = <<StartTime, StartTime + rate_limit_seconds>>
  /\ now = StartTime + rate_limit_seconds

\* The global socket configuration is the one no proxy is set in.
NonProxied == socket_socket = "socket" /\ default_proxy = NoProxy

C13_Config ==
  /\ socket_lock = 0 => NonProxied
  /\ \A t \in Threads :
       /\ spc[t] = "release" => NonProxied
       /\ via[t] # NotConnected =>
            via[t] = (IF sproxy[t] = NoProxy THEN Direct ELSE Through(sproxy[t]))

\* C13: socket.socket and the socks default proxy change only in a step of
\* the thread that holds _socket_lock, they are back in the non-proxied
\* state when that thread is about to release the lock and whenever the
\* lock is free, and every connection of validate_mailbox is made through
\* the proxy of its own thread, or directly when that thread has none.
C13_ProxyDoesNotLeak ==
  /\ []C13_Config
  /\ [][<<socket_socket, default_proxy>>' # <<socket_socket, default_proxy>>
          => socket_lock # 0 /\ socket_lock' = socket_lock]_vars

\* One thread has connected through its proxy and left the with block; the
\* other, which has no proxy, has connected directly after it.
C13_Witness ==
  \E t, u \in Threads :
    /\ t # u
    /\ sproxy[t] # NoProxy /\ via[t] = Through(sproxy[t])
    /\ sproxy[u] = NoProxy /\ via[u] = Direct
    /\ socket_lock = 0

\* C14: once validate_mailbox has sent RCPT TO for the real address and has
\* returned, the status follows the code of the reply: 550, 551, 553 and 552
\* give invalid; 450, 451, 452, 421, 252 and every code outside the lists
\* give unknown; both with is_catchall false and without a second RCPT TO;
\* 250 and 251 let the method go on.
C14_RcptClassification ==
  \A t \in Threads :
    (spc[t] = "done" /\ probes[t] # <<>>) =>
      /\ scode[t] \in INVALID_CODES \cup {MAILBOX_FULL_CODE} =>
           /\ sout[t].status = "invalid" /\ ~sout[t].is_catchall
           /\ probes[t] = <<"real">>
      /\ scode[t] \notin VALID_CODES \cup INVALID_CODES \cup {MAILBOX_FULL_CODE} =>
           /\ sout[t].status = "unknown" /\ ~sout[t].is_catchall
           /\ probes[t] = <<"real">>
      /\ (scode[t] \in VALID_CODES /\ check_catchall[t]) =>
           probes[t] = <<"real", "random">>

\* C15: when the real address was accepted (250 or 251) and the call has
\* returned: with check_catchall a second RCPT TO was sent, for the random
\* address, and the status is catch-all with is_catchall true when that one
\* was accepted too, valid otherwise; without check_catchall no second RCPT
\* TO was sent and the status is valid.
C15_CatchAllProbe ==
  \A t \in Threads :
    (spc[t] = "done" /\ probes[t] # <<>> /\ scode[t] \in VALID_CODES) =>
      IF check_catchall[t]
        THEN /\ probes[t] = <<"real", "random">>
             /\ IF catchall_code[t] \in VALID_CODES
                  THEN sout[t].status = "catch-all" /\ sout[t].is_catchall
                  ELSE sout[t].status = "valid" /\ ~sout[t].is_catchall
        ELSE /\ probes[t] = <<"real">>
             /\ sout[t].status = "valid"

\* C16: validate_mailbox never raises, and each of its returns carries one of
\* the four statuses; a failed connection attempt, a failed handshake, and an
\* exception while the session is being closed each give status unknown with
\* code 0, the error text and is_catchall false.
C16_NeverRaises ==
  \A t \in Threads :
    /\ sout[t] # RaisedOutcome
    /\ spc[t] = "done" =>
         /\ sout[t].status \in {"valid", "invalid", "unknown", "catch-all"}
         /\ (pending[t] \/ probes[t] = <<>> \/ sout[t] # plan[t]) =>
              /\ sout[t].status = "unknown" /\ sout[t].code = 0
              /\ sout[t].message \in {"Error", "SMTP handshake failed"}
              /\ ~sout[t].is_catchall
         /\ pending[t] => sout[t].message = "Error" /\ via[t] = NotConnected

\* The connection attempt through a proxy raised, and the call returned
\* unknown.
C16_Witness ==
  \E t \in Threads :
    /\ spc[t] = "done" /\ pending[t] /\ sproxy[t] # NoProxy
    /\ sout[t] = Outcome("unknown", 0, "Error", FALSE)

\* The reason a stage gives for its failure: the validator's or the
\* checker's own message, or the fixed text of the disposable stage.
StageReason(fn) ==
  CASE fn = "syntax" -> "syntax_error"
    [] fn = "disposable" -> "Disposable email domain"
    [] fn = "dns" -> "dns_error"

\* C17: a failed syntax check, a disposable hit, or a failed DNS check with
\* deliverability checking on gives the tuple (email, false, the stage's
\* reason, invalid); the SMTP validator has not been called; and validate
\* returns that tuple when the worker finished within the timeout.
C17_FailureIsInvalid ==
  \A i \in 1..Len(calls) :
    DefinitiveFailure(calls[i]) =>
      /\ wres = Result(email, FALSE, StageReason(calls[i].fn), "invalid")
      /\ \A j \in 1..Len(calls) : calls[j].fn # "smtp"
      /\ (mpc = "returned" /\ branch = "ok") => ret = wres

\* A disposable address, with an SMTP validator configured: validate has
\* returned invalid with the reason of the disposable stage.
C17_Witness ==
  /\ cfg.smtp_validation /\ cfg.smtp_validator
  /\ Len(calls) = 2 /\ calls[2].fn = "disposable" /\ calls[2].out = "fail"
  /\ mpc = "returned" /\ branch = "ok"
  /\ ret = Result(email, FALSE, "Disposable email domain", "invalid")

\* C18: with deliverability checking off, SMTP validation on and a validator
\* configured, a failed DNS check leads to no validate_mailbox call and to a
\* result with is_valid true that is not the tuple of category valid with
\* the reason 'Valid (DNS only)'.
C18_NoDnsOnlyLabel ==
  ( /\ ~cfg.deliverable_address /\ cfg.smtp_validation /\ cfg.smtp_validator
    /\ Len(calls) >= 3 /\ calls[3].fn = "dns" /\ calls[3].out = "fail"
    /\ wres.kind = "result" ) =>
      /\ \A j \in 1..Len(calls) : calls[j].fn # "smtp"
      /\ wres.is_valid
      /\ ~(wres.category = "valid" /\ wres.reason = "Valid (DNS only)")

\* C19: with LocalDNSChecker or HTTPDNSChecker as dns_checker, a DNS check
\* that succeeds and SMTP validation disabled or no validator configured,
\* validate returns (email, True, 'Valid (DNS only)', 'valid').
C19_DnsOnly ==
  ( /\ cfg.dns_checker \in {"LocalDNSChecker", "HTTPDNSChecker"}
    /\ ~(cfg.smtp_validation /\ cfg.smtp_validator)
    /\ Len(calls) >= 3 /\ calls[3].fn = "dns" /\ calls[3].out = "pass"
    /\ mpc = "returned" /\ branch # "timeout" ) =>
      ret = Result(email, TRUE, "Valid (DNS only)", "valid")

\* The calls of validate_mailbox among the collaborator calls made so far
SmtpCalls == {j \in 1..Len(calls) : calls[j].fn = "smtp"}

\* C20: with smtp_validation on, a validator configured, deliverable_address
\* off and a DNS check that succeeded with a non-empty MX list, validate_mailbox
\* is called at most once at any time and exactly once when the pipeline has
\* ended, with the email, the first MX server and check_catchall true.
C20_FirstMxOnce ==
  ( /\ cfg.smtp_validation /\ cfg.smtp_validator /\ ~cfg.deliverable_address
    /\ Len(calls) >= 4
    /\ calls[3].fn = "dns" /\ calls[3].out = "pass"
    /\ calls[4].fn = "get_mx_servers" /\ calls[4].out = "pass" ) =>
      /\ Cardinality(SmtpCalls) <= 1
      /\ \A j \in SmtpCalls : calls[j].arg = <<email, mx_servers[1], TRUE>>
      /\ wres.kind # "none" => Cardinality(SmtpCalls) = 1

C20_Witness ==
  /\ cfg.smtp_validation /\ cfg.smtp_validator /\ ~cfg.deliverable_address
  /\ mx_servers = <<"mx1", "mx2">>
  /\ Len(calls) = 5 /\ calls[4].out = "pass"
  /\ calls[5].fn = "smtp" /\ calls[5].arg = <<email, "mx1", TRUE>>
  /\ mpc = "returned" /\ branch = "ok"

\* C21: once validate has normalised its argument, the local email is the
\* trimmed, lower-cased input and stays so; the syntax validator, the
\* disposable checker and validate_mailbox receive it, the DNS checker
\* receives the domain extracted from it, and the email field of the
\* worker's tuple and of the returned tuple equals it.
C21_OneNormalizedValue ==
  LET n == Lower(Strip(raw)) IN
  /\ mpc # "idle" => email = n
  /\ \A i \in 1..Len(calls) :
       CASE calls[i].fn \in {"syntax", "disposable"} -> calls[i].arg = n
         [] calls[i].fn \in {"dns", "get_mx_servers"} ->
              calls[i].arg = extract_domain(n)
         [] calls[i].fn = "smtp" -> calls[i].arg[1] = n
  /\ wres.kind = "result" => wres.email = n
  /\ mpc = "returned" => ret.email = n

C21_Witness ==
  /\ raw = <<" ", "A", "@", "B", " ">>
  /\ Len(calls) = 5 /\ calls[5].fn = "smtp"
  /\ calls[1].arg = <<"a", "@", "b">>
  /\ calls[5].arg[1] = <<"a", "@", "b">>
  /\ mpc = "returned" /\ ret.email = <<"a", "@", "b">>

\* C22: EmailSyntaxValidator.validate accepts an email only if every
\* character of its local part is a letter, a digit, a dot or an underscore;
\* an email with '+' or '-' in the local part is rejected.
C22_StrictLocalPart ==
  (leaf = "validate" /\ lout.done /\ larg # None) =>
    LET s == Strip(larg)
        local == SubSeq(s, 1, LastAt(s) - 1)
    IN /\ lout.value.ok =>
            \A i \in 1..Len(local) : IsAlnum(local[i]) \/ local[i] \in {".", "_"}
       /\ (\E i \in 1..Len(local) : local[i] \in {"+", "-"}) => ~lout.value.ok

\* The domains of the provider whose addresses must not carry a '+'
GoogleDomains ==
  { <<"g", "m", "a", "i", "l", ".", "c", "o", "m">>,
    <<"g", "o", "o", "g", "l", "e", "m", "a", "i", "l", ".", "c", "o", "m">>,
    <<"g", "o", "o", "g", "l", "e", ".", "c", "o", "m">> }

\* The local part of the normalised email holds a '+'
PlusAddressed == \E i \in 1..(LastAt(email) - 1) : email[i] = "+"

\* C23: with an EmailSyntaxValidator in place and deliverable_address off, an
\* address with '+' in the local part is reported not valid when its domain
\* is gmail.com, googlemail.com or google.com, and its syntax is accepted for
\* any other domain; an address without '+' is accepted or rejected as the
\* same validator decides.
C23_ProviderAwarePlus ==
  ( /\ cfg.syntax_validator = "EmailSyntaxValidator" /\ ~cfg.deliverable_address
    /\ mpc = "returned" /\ branch = "ok" /\ PlusAddressed ) =>
      IF extract_domain(email) \in GoogleDomains
        THEN ~ret.is_valid
        ELSE validate(email).ok => calls[1].out = "pass"

\* TLDValidator.tlds as parsed from the list of the data source
\* (tld_validator.py:118-136): lower-case strings
tlds == {<<"c", "o">>, <<"c", "o", "m">>}

\* TLDValidator.is_valid_tld
is_valid_tld(tld) == IF tlds = {} THEN FALSE ELSE Lower(tld) \in tlds

\* C24: EmailSyntaxValidator.validate accepts an email only if the last label
\* of its domain is made of letters, has at least two of them and is in the
\* TLD set.
C24_TldInSet ==
  (leaf = "validate" /\ lout.done /\ larg # None /\ lout.value.ok) =>
    LET s == Strip(larg)
        domain == SubSeq(s, LastAt(s) + 1, Len(s))
        dots == {i \in 1..Len(domain) : domain[i] = "."}
        last == CHOOSE i \in dots : \A k \in dots : k <= i
        tld == SubSeq(domain, last + 1, Len(domain))
    IN /\ dots # {}
       /\ \A i \in 1..Len(tld) : IsAlnum(tld[i]) /\ tld[i] # "1"
       /\ Len(tld) >= 2
       /\ is_valid_tld(tld)

\* The domain is_disposable looks at: the text after the first '@', up to
\* the next '@' if there is one, in lower case; None when e has no '@'
DomainAfterAt(e) ==
  IF e = None \/ \A i \in 1..Len(e) : e[i] # "@" THEN None
  ELSE LET a == CHOOSE i \in 1..Len(e) :
                  e[i] = "@" /\ \A j \in 1..(i - 1) : e[j] # "@"
           r == SubSeq(e, a + 1, Len(e))
           n == IF \A i \in 1..Len(r) : r[i] # "@" THEN Len(r)
                ELSE (CHOOSE i \in 1..Len(r) :
                        r[i] = "@" /\ \A j \in 1..(i - 1) : r[j] # "@") - 1
       IN Lower(SubSeq(r, 1, n))

\* d itself or what follows one of its dots
LabelSuffixes(d) ==
  {d} \cup {SubSeq(d, i + 1, Len(d)) : i \in {k \in 1..Len(d) : d[k] = "."}}

\* C25: is_disposable returns, without raising, true exactly when the set is
\* not empty, the email has a domain and the domain or one of its parent
\* domains is in the set.
C25_DisposableMatch ==
  (leaf = "is_disposable" /\ lout.done) =>
    /\ ~lout.raised
    /\ lout.value \in BOOLEAN
    /\ lout.value <=>
         /\ disposable_domains # {}
         /\ DomainAfterAt(larg) # None
         /\ LabelSuffixes(DomainAfterAt(larg)) \cap disposable_domains # {}

C25_Witness ==
  /\ leaf = "is_disposable" /\ lout.done /\ lout.value
  /\ larg = <<"a", "@", "a", ".", "b", ".", "c", "o">>
  /\ disposable_domains = {<<"b", ".", "c", "o">>}

\* The retry loop of thread t is running
InRetryLoop(t) == dpc[t] \in {"mx", "a", "aaaa", "request"}

\* Thread t's _check_domain_impl returns a temporary failure after a fault of
\* the network, not after an unexpected internal error
SurfacesTransient(t) ==
  /\ InRetryLoop(t) /\ impl[t] = NoImpl /\ impl'[t] # NoImpl
  /\ ~impl'[t].cacheable
  /\ impl'[t].error # "Unexpected error (temporary)"

\* C26: a lookup makes at most max_retries attempts; attempt a+1 is made
\* after a wait of retry_delay * 2^a; and a transient fault surfaces as a
\* non-cacheable failure only when max_retries attempts have been made.
C26_RetryWithBackoff ==
  /\ [](\A t \in Threads :
          /\ attempt[t] <= max_retries - 1
          /\ (InRetryLoop(t) /\ attempt[t] > 0) =>
                waited[t] = retry_delay * 2^(attempt[t] - 1))
  /\ [][\A t \in Threads :
          SurfacesTransient(t) => attempt[t] = max_retries - 1]_vars

\* C27: a hit moves the entry to the most recently used end, and the entry
\* that an insertion into the full cache removes, the first one, is the entry
\* read or written least recently among those present.
C27_EvictsLeastRecentlyUsed ==
  /\ [](cache_lock = 0 /\ Len(cache) = cache_size => cache[1].dom = Head(lru))
  /\ [][\A t \in Threads :
          (dpc[t] = "lookup" /\ dpc'[t] = "done") =>
             cache'[Len(cache')].dom = ddom[t]]_vars

\* The list of records of kind k in an API response; a response without the
\* key has none
RecordList(data, k) ==
  LET records == data[2]["records"] IN
  IF HasKey(records, k) THEN records[2][k][2] ELSE <<>>

\* An API response with status OK whose MX and A records, where it has them,
\* are lists
OkResponse(data) ==
  /\ IsDict(data) /\ HasKey(data, "status") /\ data[2]["status"] = JStr("OK")
  /\ HasKey(data, "records") /\ IsDict(data[2]["records"])
  /\ \A k \in {"MX", "A"} :
       HasKey(data[2]["records"], k) => data[2]["records"][2][k][1] = "list"

\* A record that is a dict with a non-empty string under key k
HasText(rec, k) ==
  IsDict(rec) /\ HasKey(rec, k) /\ IsStr(rec[2][k]) /\ rec[2][k][2] # ""

SomeValidMx(data) ==
  \E i \in 1..Len(RecordList(data, "MX")) : HasText(RecordList(data, "MX")[i], "exchange")

SomeNonEmptyA(data) ==
  \E i \in 1..Len(RecordList(data, "A")) :
    LET a == RecordList(data, "A")[i] IN
    (IsStr(a) /\ a[2] # "") \/ HasText(a, "address")

\* C28: for a response with status OK, _parse_dns_response returns (TRUE, "")
\* when some MX record has a non-empty exchange, and when there is no MX
\* record but a non-empty A record; (FALSE, "MX records exist but are
\* invalid") when there are MX records and none is valid, whatever the A
\* records; (FALSE, "No MX or A records found") when both lists are empty.
C28_ParseOutcomes ==
  (leaf = "_parse_dns_response" /\ lout.done /\ OkResponse(larg)) =>
    /\ ~lout.raised
    /\ SomeValidMx(larg) => lout.value = <<TRUE, "">>
    /\ (RecordList(larg, "MX") = <<>> /\ SomeNonEmptyA(larg)) =>
          lout.value = <<TRUE, "">>
    /\ (RecordList(larg, "MX") # <<>> /\ ~SomeValidMx(larg)) =>
          lout.value = <<FALSE, "MX records exist but are invalid">>
    /\ (RecordList(larg, "MX") = <<>> /\ RecordList(larg, "A") = <<>>) =>
          lout.value = <<FALSE, "No MX or A records found">>

\* An empty exchange beside an A record: no fallback
C28_Witness ==
  /\ leaf = "_parse_dns_response" /\ lout.done
  /\ larg = MkDict([status |-> JStr("OK"),
                    records |-> MkDict([MX |-> JList(<<MkDict([exchange |-> JStr("")])>>),
                                        A |-> JList(<<JStr("192.0.2.1")>>)])])
  /\ lout.value = <<FALSE, "MX records exist but are invalid">>

\* C29: _parse_dns_response never raises: whatever the response, malformed
\* ones included, it returns one of the (bool, str) pairs or None; and when
\* it returns None, _check_domain_impl retries or returns a result that
\* check_domain does not store.
C29_ParseNeverRaises ==
  (leaf = "_parse_dns_response" /\ lout.done) =>
    /\ ~lout.raised
    /\ lout.value \in ParseResults \cup {None}
    /\ lout.value = None =>
         \A a \in 0..(max_retries - 1) :
           LET h == http_request("200", lout.value, a) IN
           h.act = "retry" \/ (h.act = "return" /\ ~Stores(h.val))

\* json() returned null: data.get raises inside the try block
C29_Witness ==
  /\ leaf = "_parse_dns_response" /\ lout.done
  /\ larg = JNone
  /\ lout = Out(None)

\* Thread t's resolver query of this step had outcome out
Answered(t, out) ==
  /\ checker = "local"
  /\ dpc[t] \in {"mx", "a", "aaaa"}
  /\ out = "null_mx" => dpc[t] = "mx"
  /\ Handled(t, local_query(dpc[t], out, attempt[t]), NextStage(dpc[t]))

\* _check_domain_impl of thread t returns the cacheable result (success, error)
\* in this step: no further query, no retry
Definitive(t, success, error) ==
  /\ impl'[t] = ImplResult(success, error, TRUE)
  /\ dpc'[t] = "insert"

\* C30: LocalDNSChecker queries MX first; it goes on to A, and from A to AAAA,
\* when and only when the query before returned NoAnswer; an answer with a
\* usable record is a cacheable success; NXDOMAIN at any of the three queries
\* is the cacheable failure "Domain not found" with no further query or
\* retry; NoAnswer to all three is a cacheable failure.
C30_MxThenAThenAaaa ==
  [][\A t \in Threads :
       /\ (checker = "local" /\ dpc[t] = "lookup" /\ dpc'[t] # "done") =>
             dpc'[t] = "mx"
       /\ (checker = "local" /\ dpc'[t] = "a" /\ dpc[t] # "a") =>
             dpc[t] = "mx" /\ Answered(t, "NoAnswer")
       /\ (checker = "local" /\ dpc'[t] = "aaaa" /\ dpc[t] # "aaaa") =>
             dpc[t] = "a" /\ Answered(t, "NoAnswer")
       /\ Answered(t, "answer") => Definitive(t, TRUE, "")
       /\ Answered(t, "NXDOMAIN") =>
             Definitive(t, FALSE, "Domain not found (no DNS records)")
       /\ Answered(t, "NoAnswer") =>
             CASE dpc[t] = "mx" -> dpc'[t] = "a" /\ attempt'[t] = attempt[t]
               [] dpc[t] = "a" -> dpc'[t] = "aaaa" /\ attempt'[t] = attempt[t]
               [] dpc[t] = "aaaa" ->
                    Definitive(t, FALSE, "No MX, A, or AAAA records found")]_vars

\* MX, A and AAAA were queried in turn and none had a record
C30_Witness ==
  /\ checker = "local"
  /\ dpc[1] = "insert"
  /\ impl[1] = ImplResult(FALSE, "No MX, A, or AAAA records found", TRUE)

\* C31: _socket_lock is held only around the connection setup: a thread that
\* waits for its proxy, does the EHLO/STARTTLS handshake, sends RCPT TO or
\* QUIT, or is outside validate_mailbox does not hold it.
C31_LockOnlyAroundSetup ==
  \A t \in Threads :
    /\ spc[t] \in {"proxy", "lock", "handshake", "rcpt", "probe", "quit", "idle", "done"}
         => socket_lock # t
    /\ socket_lock = t => spc[t] \in {"setup", "connect", "finally", "release"}

\* One thread is in its handshake while the other holds the lock
C31_Witness ==
  \E t, u \in Threads :
    t # u /\ spc[t] = "handshake" /\ socket_lock = u /\ spc[u] = "connect"

\* C32: get_next_proxy goes through the rotation from current_index, one
\* proxy per iteration; it passes over a proxy used less than
\* rate_limit_seconds ago and returns the first one that was not, leaving
\* current_index just past it; with no proxy loaded it returns None at once.
C32_RoundRobin ==
  [][\A t \in PThreads :
       pfn'[t] = "next" =>
         /\ (got'[t] # got[t] /\ got'[t] # NoProxy) =>
              /\ ppc[t] = "scan" /\ ppc'[t] = "done"
              /\ got'[t] = current_index
              /\ now - last_used[current_index] >= rate_limit_seconds
              /\ current_index' = (current_index + 1) % NProxies
         /\ scanned'[t] = scanned[t] + 1 =>
              /\ now - last_used[current_index] < rate_limit_seconds
              /\ current_index' = (current_index + 1) % NProxies
              /\ got'[t] = NoProxy
         /\ (proxies = {} /\ ppc[t] = "idle" /\ ppc'[t] # "idle") =>
              ppc'[t] = "done" /\ got'[t] = NoProxy]_vars

\* get_next_proxy passed over proxy 0, which was rate limited, and returned
\* proxy 1
C32_Witness ==
  \E t \in PThreads :
    /\ pfn[t] = "next" /\ ppc[t] = "done"
    /\ scanned[t] = 1 /\ got[t] = 1 /\ current_index = 0

\* C33: last_used of a proxy never decreases, and it changes only in the step
\* in which the holder of the lock is handed that proxy, to the time of the
\* hand-out.
C33_LastUsedMonotonic ==
  [][\A p \in Proxies :
       /\ last_used'[p] >= last_used[p]
       /\ last_used'[p] # last_used[p] =>
            /\ lock # 0 /\ lock' = 0
            /\ got'[lock] = p /\ ppc'[lock] = "done"
            /\ last_used'[p] = now]_vars

\* A proxy has been handed out twice
C33_Witness ==
  \E p \in Proxies :
    Len(dispensed[p]) = 2 /\ last_used[p] = dispensed[p][2] /\ dispensed[p][1] < last_used[p]

Rank(pc) ==
  CASE pc = "proxy" -> 1 [] pc = "lock" -> 2 [] pc = "setup" -> 3
    [] pc = "connect" -> 4 [] pc = "finally" -> 5 [] pc = "release" -> 6
    [] pc = "handshake" -> 7 [] pc = "rcpt" -> 8 [] pc = "probe" -> 9
    [] pc = "quit" -> 10 [] OTHER -> 11

C36_RequestsSpaced ==
  \A i \in 1..(Len(requests) - 1) : requests[i + 1] - requests[i] >= rate_limit_delay

\* C37: a call that has reached a verdict from the replies to RCPT TO
\* (invalid, valid, catch-all) returns that verdict, whatever happens to the
\* QUIT that follows.
C37_VerdictSurvivesQuit ==
  \A t \in Threads :
    (spc[t] = "done" /\ plan[t].status \in {"invalid", "valid", "catch-all"}) =>
      sout[t] = plan[t]

\* C38: after validate has returned the timeout tuple, the worker it left
\* behind may finish and write its own result, but validate stays returned
\* and the tuple it returned stays what it was: the timeout tuple, not the
\* worker's.
C38_AbandonedWorkerIsIgnored ==
  /\ []((branch = "timeout" /\ mpc = "returned" /\ wres.kind = "result") =>
          /\ ret # wres
          /\ ret.reason = "Validation timeout exceeded")
  /\ [][(branch = "timeout" /\ mpc = "returned") =>
          (mpc' = "returned" /\ branch' = "timeout" /\ ret' = ret)]_vars

\* The worker has finished with a result of its own after validate gave up
\* waiting and returned.
C38_Witness ==
  /\ branch = "timeout" /\ mpc = "returned"
  /\ wres.kind = "result" /\ wres.category = "valid"
  /\ wpc = "exited"
  /\ ret.category = "unknown"

\* C39: in the tuple validate returns the flag follows the category: invalid
\* has is_valid false; valid, risk and unknown have is_valid true.
C39_FlagAgreesWithCategory ==
  mpc = "returned" =>
    /\ ret.category = "invalid" => ~ret.is_valid
    /\ ret.category \in {"valid", "risk"} => ret.is_valid
    /\ ret.category = "unknown" => ret.is_valid

\* C40: with proxies loaded, every get_next_proxy call of a set of callers
\* larger than the rotation ends with a proxy, the scheduler being fair and
\* the clock advancing; current_index is always an index of the list, and
\* after a scan that found every proxy rate limited it is where the scan began.
C40_EveryCallerIsServed ==
  /\ [](current_index \in Proxies)
  /\ [](\A t \in PThreads : ppc[t] = "oldest" => current_index = scan_start[t])
  /\ \A t \in PThreads :
       (ppc[t] = "lock") ~> (ppc[t] = "done" /\ got[t] \in Proxies)

\* A caller has found every proxy rate limited with the rotation away from
\* its start, has slept and has then been given a proxy
C40_Witness ==
  \E t \in PThreads :
    /\ ppc[t] = "done" /\ got[t] \in Proxies
    /\ wake[t] > StartTime
    /\ scan_start[t] # 0

====
